---- MODULE Spec2Model ----
(***************************************************************************)
(* A model of the auditlog service: the mux package (WriteJsonResponse,    *)
(* AuthenticationMiddleware, LoggingMiddleware, MethodRouter), the api     *)
(* package (EventsAddHandler, EventsQueryHandler, CreateFilterFromQuery,   *)
(* ValidationError) and the handler chain that main assembles.             *)
(*                                                                         *)
(* Text (header values, tokens, descriptions, response bodies) is a        *)
(* sequence of one-character strings, so that matching, escaping and       *)
(* lengths are computed as the code computes them.  Go values that reach   *)
(* WriteJsonResponse or the store are records tagged by a field t.         *)
(***************************************************************************)
EXTENDS Integers, Sequences, FiniteSets, TLC

VARIABLES
    Token,      \* AuthenticationMiddleware.Token, set once at startup
    routes,     \* MethodRouter.routes: method name -> registered handler
    handleCalls, \* the MethodRouter.Handle calls made so far, in order
    store,      \* the documents of the 'event' collection, in insertion order
    req,        \* req[r]: the request served in slot r, its handler's locals and its response
    logged,     \* number of entries the Logger has written
    acked       \* the events of the POST requests answered 204 so far

vars == <<Token, routes, handleCalls, store, req, logged, acked>>

(***************************************************************************)
(* Bounds of the model.                                                    *)
(***************************************************************************)
NumReq == 2
MaxTokenLen == 2
MaxRequests == 3
MaxDescriptionLen == 2
MaxHandleCalls == 3

Reqs == 1..NumReq

(***************************************************************************)
(* Program constants.                                                      *)
(***************************************************************************)
StatusOK == 200
StatusNoContent == 204
StatusBadRequest == 400
StatusUnauthorized == 401
StatusNotFound == 404
StatusMethodNotAllowed == 405
StatusTeapot == 418
StatusInternalServerError == 500

(***************************************************************************)
(* net/http's StatusText for the codes the program uses; "" for a code     *)
(* net/http does not know.                                                 *)
(***************************************************************************)
StatusText(code) ==
    CASE code = StatusOK -> <<"O", "K">>
      [] code = StatusNoContent -> <<"N", "o", " ", "C", "o", "n", "t", "e", "n", "t">>
      [] code = StatusBadRequest -> <<"B", "a", "d", " ", "R", "e", "q", "u", "e", "s", "t">>
      [] code = StatusUnauthorized -> <<"U", "n", "a", "u", "t", "h", "o", "r", "i", "z", "e", "d">>
      [] code = StatusNotFound -> <<"N", "o", "t", " ", "F", "o", "u", "n", "d">>
      [] code = StatusMethodNotAllowed -> <<"M", "e", "t", "h", "o", "d", " ", "N", "o", "t", " ", "A", "l", "l", "o", "w", "e", "d">>
      [] code = StatusTeapot -> <<"I", "'", "m", " ", "a", " ", "t", "e", "a", "p", "o", "t">>
      [] code = StatusInternalServerError -> <<"I", "n", "t", "e", "r", "n", "a", "l", " ", "S", "e", "r", "v", "e", "r", " ", "E", "r", "r", "o", "r">>
      [] OTHER -> <<>>

(***************************************************************************)
(* Go values.  Nil is the nil interface value; HttpError is mux.HttpError; *)
(* PlainError is any error that is not an HttpError (what the store driver *)
(* or fmt.Errorf returns); StringValue is a Go string; Unmarshalable is a  *)
(* value whose MarshalJSON fails with an error of text msg.                *)
(***************************************************************************)
Nil == [t |-> "nil"]

HttpError(Code, Description) ==
    [t |-> "HttpError", Code |-> Code, Description |-> Description]

DefaultHttpError(statusCode) == HttpError(statusCode, StatusText(statusCode))

PlainError(msg) == [t |-> "error", msg |-> msg]

StringValue(s) == [t |-> "string", s |-> s]

Unmarshalable(msg) == [t |-> "unmarshalable", msg |-> msg]

IsError(v) == v.t \in {"HttpError", "error"}

\* the Error() method of an error value
ErrorText(e) == IF e.t = "HttpError" THEN e.Description ELSE e.msg

(***************************************************************************)
(* Decimal text of a natural number (fmt.Sprintf("%d", n)).                *)
(***************************************************************************)
Digit(d) == <<"0", "1", "2", "3", "4", "5", "6", "7", "8", "9">>[d + 1]

RECURSIVE Decimal(_)
Decimal(n) == IF n < 10 THEN <<Digit(n)>> ELSE Decimal(n \div 10) \o <<Digit(n % 10)>>

\* an encoder that writes the double quote as it is
EscapeCharQuoteUnescaped(c) ==
    CASE c = "\\" -> <<"\\", "\\">>
      [] c = "<" -> <<"\\", "u", "0", "0", "3", "c">>
      [] c = ">" -> <<"\\", "u", "0", "0", "3", "e">>
      [] c = "&" -> <<"\\", "u", "0", "0", "2", "6">>
      [] OTHER -> <<c>>

(***************************************************************************)
(* encoding/json's encoding of a Go string: quoted, with the quote and the *)
(* backslash escaped and <, > and & written as \u00XX.                     *)
(***************************************************************************)
EscapeChar(c) ==
    CASE c = "\"" -> <<"\\", "\"">>
      [] c = "\\" -> <<"\\", "\\">>
      [] c = "<" -> <<"\\", "u", "0", "0", "3", "c">>
      [] c = ">" -> <<"\\", "u", "0", "0", "3", "e">>
      [] c = "&" -> <<"\\", "u", "0", "0", "2", "6">>
      [] OTHER -> <<c>>

\* the escapes of the characters of s, in order (the text is halved at each step)
RECURSIVE EscapeText(_)
EscapeText(s) ==
    IF s = <<>> THEN <<>>
    ELSE IF Len(s) = 1 THEN EscapeChar(s[1])
    ELSE LET half == Len(s) \div 2
         IN  EscapeText(SubSeq(s, 1, half)) \o EscapeText(SubSeq(s, half + 1, Len(s)))

MarshalString(s) == <<"\"">> \o EscapeText(s) \o <<"\"">>

(***************************************************************************)
(* Documents.  A JSON text that parses is a literal: NumberLit(hi, lo) is  *)
(* the number hi * 2^53 + lo written in decimal, a StringValue, or an      *)
(* ObjectLit over a function from keys to literals.  json.Unmarshal into   *)
(* map[string]interface{} turns every number into a float64, every object  *)
(* into a map.  ObjectID(n) is the store's 12-byte identifier of value n.  *)
(***************************************************************************)
NumberLit(hi, lo) == [t |-> "number", hi |-> hi, lo |-> lo]

ObjectLit(m) == [t |-> "object", m |-> m]

Float64(hi, lo) == [t |-> "float64", hi |-> hi, lo |-> lo]

MapValue(m) == [t |-> "map", m |-> m]

ObjectID(n) == [t |-> "ObjectID", n |-> n]

\* the slice results of EventsQueryHandler: nil, or a list of documents
Slice(isNil, items) == [t |-> "slice", isNil |-> isNil, items |-> items]

(***************************************************************************)
(* The float64 nearest to hi * 2^53 + lo (ties to the even mantissa).      *)
(* Below 2^53 every integer is a float64; from 2^53 to 2^54 only the even  *)
(* ones are.                                                               *)
(***************************************************************************)
NearestFloat64(hi, lo) ==
    IF hi = 0 \/ lo % 2 = 0 THEN Float64(hi, lo)
    ELSE IF (lo - 1) % 4 = 0 THEN Float64(hi, lo - 1)
    ELSE Float64(hi, lo + 1)

\* json.Unmarshal(d, &event) on a body that holds the literal v
RECURSIVE Unmarshal(_)
Unmarshal(v) ==
    CASE v.t = "number" -> NearestFloat64(v.hi, v.lo)
      [] v.t = "object" -> MapValue([k \in DOMAIN v.m |-> Unmarshal(v.m[k])])
      [] OTHER -> v

(***************************************************************************)
(* encoding/json's encoding of documents.  A map's keys are written in     *)
(* sorted order; KeyOrder lists the keys of the model in that order.       *)
(***************************************************************************)
KeyOrder == <<"_id", "attributes", "customer_name", "service_name", "source", "summary", "timestamp">>

KeyText(k) ==
    CASE k = "_id" -> <<"_", "i", "d">>
      [] k = "attributes" -> <<"a", "t", "t", "r", "i", "b", "u", "t", "e", "s">>
      [] k = "customer_name" -> <<"c", "u", "s", "t", "o", "m", "e", "r", "_", "n", "a", "m", "e">>
      [] k = "service_name" -> <<"s", "e", "r", "v", "i", "c", "e", "_", "n", "a", "m", "e">>
      [] k = "source" -> <<"s", "o", "u", "r", "c", "e">>
      [] k = "summary" -> <<"s", "u", "m", "m", "a", "r", "y">>
      [] k = "timestamp" -> <<"t", "i", "m", "e", "s", "t", "a", "m", "p">>

SortedKeys(m) == SelectSeq(KeyOrder, LAMBDA k : k \in DOMAIN m)

\* the 24 hexadecimal digits of an ObjectID of value n < 16
HexDigit(d) == <<"0", "1", "2", "3", "4", "5", "6", "7", "8", "9", "a", "b", "c", "d", "e", "f">>[d + 1]

ObjectIDHex(n) == [i \in 1..23 |-> "0"] \o <<HexDigit(n)>>

\* strconv's shortest decimal text of a float64 that is an integer
MarshalFloat64(f) ==
    IF f.hi = 0
    THEN IF f.lo < 0 THEN <<"-">> \o Decimal(0 - f.lo) ELSE Decimal(f.lo)
    ELSE <<"9", "0", "0", "7", "1", "9", "9", "2", "5", "4", "7", "4", "0", "9", "9">> \o <<Digit(2 + f.lo)>>

RECURSIVE MarshalValue(_)
RECURSIVE MarshalMembers(_, _)
MarshalMembers(m, keys) ==
    IF keys = <<>> THEN <<>>
    ELSE MarshalString(KeyText(Head(keys))) \o <<":">> \o MarshalValue(m[Head(keys)])
         \o (IF Tail(keys) = <<>> THEN <<>> ELSE <<",">> \o MarshalMembers(m, Tail(keys)))

MarshalValue(v) ==
    CASE v.t = "string" -> MarshalString(v.s)
      [] v.t = "float64" -> MarshalFloat64(v)
      [] v.t = "ObjectID" -> <<"\"">> \o ObjectIDHex(v.n) \o <<"\"">>
      [] v.t = "map" -> <<"{">> \o MarshalMembers(v.m, SortedKeys(v.m)) \o <<"}">>

RECURSIVE MarshalItems(_)
MarshalItems(items) ==
    IF items = <<>> THEN <<>>
    ELSE MarshalValue(Head(items))
         \o (IF Tail(items) = <<>> THEN <<>> ELSE <<",">> \o MarshalItems(Tail(items)))

\* json.Marshal(v): the bytes, or the error of a value that cannot be marshalled.
\* HttpError.Code is tagged json:"-" and is not written.
JsonMarshal(v) ==
    CASE v.t = "unmarshalable" -> [err |-> PlainError(v.msg), bytes |-> <<>>]
      [] v.t = "HttpError" ->
            [err |-> Nil,
             bytes |-> <<"{", "\"", "d", "e", "s", "c", "r", "i", "p", "t", "i", "o", "n", "\"", ":">> \o MarshalString(v.Description) \o <<"}">>]
      [] v.t = "slice" ->
            [err |-> Nil,
             bytes |-> IF v.isNil THEN <<"n", "u", "l", "l">>
                       ELSE <<"[">> \o MarshalItems(v.items) \o <<"]">>]
      [] OTHER -> [err |-> Nil, bytes |-> MarshalValue(v)]

(***************************************************************************)
(* The response writer: the headers set, the status written, the body      *)
(* bytes written, and the calls made on it, in order.                      *)
(***************************************************************************)
NewResponseWriter ==
    [header |-> [ContentType |-> <<>>, ContentLength |-> <<>>],
     responseCode |-> 0,
     responseText |-> <<>>,
     calls |-> <<>>]

\* a writer that answers a failed json.Marshal with the text of its error
WriteJsonResponseOutcomeEchoingError(v) ==
    IF v = Nil THEN [statusCode |-> StatusNoContent, responseBytes |-> <<"{", "}">>]
    ELSE LET w == IF IsError(v) /\ v.t # "HttpError" THEN HttpError(0, ErrorText(v)) ELSE v
             statusCode == IF IsError(v) THEN IF v.t # "HttpError" THEN 500 ELSE v.Code ELSE 0
             marshalled == JsonMarshal(w)
         IN  IF marshalled.err = Nil
             THEN [statusCode |-> IF statusCode = 0 THEN StatusOK ELSE statusCode,
                   responseBytes |-> marshalled.bytes]
             ELSE [statusCode |-> StatusInternalServerError,
                   responseBytes |-> JsonMarshal(HttpError(0, ErrorText(marshalled.err))).bytes]

\* the status and the body WriteJsonResponse decides on for the value v
WriteJsonResponseOutcome(v) ==
    IF v # Nil
    THEN LET ok == IsError(v)
             isHttpError == v.t = "HttpError"
             w == IF ok /\ ~isHttpError THEN HttpError(0, ErrorText(v)) ELSE v
             statusCode == IF ok
                           THEN IF ~isHttpError THEN 500 ELSE v.Code
                           ELSE 0
             marshalled == JsonMarshal(w)
         IN  IF marshalled.err = Nil
             THEN [statusCode |-> IF statusCode = 0 THEN StatusOK ELSE statusCode,
                   responseBytes |-> marshalled.bytes]
             ELSE [statusCode |-> StatusInternalServerError,
                   responseBytes |-> <<"{", "\"", "d", "e", "s", "c", "r", "i", "p", "t", "i", "o", "n", "\"", ":", "\"">>
                                     \o StatusText(StatusInternalServerError)
                                     \o <<"\"", "}">>]
    ELSE [statusCode |-> StatusNoContent, responseBytes |-> <<"{", "}">>]

\* a writer that writes the status first: the headers set after it are lost
WriteJsonResponseStatusFirst(writer, v) ==
    LET o == WriteJsonResponseOutcome(v)
    IN  [header |-> writer.header,
         responseCode |-> o.statusCode,
         responseText |-> writer.responseText \o o.responseBytes,
         calls |-> writer.calls \o <<"WriteHeader", "Header.Set", "Header.Set", "Write">>]

\* a writer that writes the status and the body a second time
WriteJsonResponseTwice(writer, v) ==
    LET o == WriteJsonResponseOutcome(v)
    IN  [header |-> [ContentType |-> <<"a", "p", "p", "l", "i", "c", "a", "t", "i", "o", "n", "/", "j", "s", "o", "n">>,
                     ContentLength |-> Decimal(Len(o.responseBytes))],
         responseCode |-> o.statusCode,
         responseText |-> writer.responseText \o o.responseBytes \o o.responseBytes,
         calls |-> writer.calls \o <<"Header.Set", "Header.Set", "WriteHeader", "Write",
                                     "WriteHeader", "Write">>]

WriteJsonResponse(writer, v) ==
    LET o == WriteJsonResponseOutcome(v)
    IN  [header |-> [ContentType |-> <<"a", "p", "p", "l", "i", "c", "a", "t", "i", "o", "n", "/", "j", "s", "o", "n">>,
                     ContentLength |-> Decimal(Len(o.responseBytes))],
         responseCode |-> o.statusCode,
         responseText |-> writer.responseText \o o.responseBytes,
         calls |-> writer.calls \o <<"Header.Set", "Header.Set", "WriteHeader", "Write">>]

(***************************************************************************)
(* A request slot.  pc names the handler the request is at ("idle": no     *)
(* request; "done": the handler chain has returned).  trace lists the      *)
(* handlers invoked for the request, in order.  err, event, filter, cursor *)
(* and results are the locals of the api handlers; v is the value handed   *)
(* to WriteJsonResponse; ackedBefore is acked as it was when the request   *)
(* arrived; gone tells that the client has closed the connection, which    *)
(* cancels request.Context(); ops lists the store operations run for the   *)
(* request, each with its context, the seconds the store needed for it and *)
(* the error its context aborted it with; validationError is the list of   *)
(* KeyErrors the validator returned for the body; insertedID is the        *)
(* identifier in the result of a successful InsertOne.                     *)
(***************************************************************************)
NoQuery == [k \in {} |-> <<>>]

IdleRequest ==
    [pc |-> "idle",
     Method |-> "",
     Path |-> <<>>,
     hasAuthorization |-> FALSE,
     Authorization |-> <<>>,
     Body |-> Nil,
     Query |-> NoQuery,
     err |-> Nil,
     event |-> Nil,
     filter |-> NoQuery,
     cursor |-> Nil,
     results |-> Nil,
     writer |-> NewResponseWriter,
     v |-> Nil,
     trace |-> <<>>,
     ackedBefore |-> {},
     gone |-> FALSE,
     ops |-> <<>>,
     validationError |-> <<>>,
     insertedID |-> Nil]

\* make(map[string]http.Handler)
NoRoutes == [m \in {} |-> ""]

Invoked(r, h) == \E i \in 1..Len(req[r].trace) : req[r].trace[i] = h

\* request.Header.Get("Authorization"): the empty string when the header is absent
HeaderGetAuthorization(q) == IF q.hasAuthorization THEN q.Authorization ELSE <<>>

(***************************************************************************)
(* regexp.MustCompile("^[Bb]earer (.+)$").FindStringSubmatch(authValue):   *)
(* the whole match and the capture group, or the empty list.  '.' matches  *)
(* any character but a line feed.                                          *)
(***************************************************************************)
FindStringSubmatchAnyPosition(authValue) ==
    IF \E i \in 1..Len(authValue) :
           /\ Len(authValue) >= i + 7
           /\ authValue[i] \in {"B", "b"}
           /\ SubSeq(authValue, i + 1, i + 6) = <<"e", "a", "r", "e", "r", " ">>
    THEN LET i == CHOOSE j \in 1..Len(authValue) :
                      /\ Len(authValue) >= j + 7
                      /\ authValue[j] \in {"B", "b"}
                      /\ SubSeq(authValue, j + 1, j + 6) = <<"e", "a", "r", "e", "r", " ">>
         IN  <<SubSeq(authValue, i, Len(authValue)), SubSeq(authValue, i + 7, Len(authValue))>>
    ELSE <<>>

FindStringSubmatchCapitalOnly(authValue) ==
    IF /\ Len(authValue) >= 8
       /\ SubSeq(authValue, 1, 7) = <<"B", "e", "a", "r", "e", "r", " ">>
    THEN <<authValue, SubSeq(authValue, 8, Len(authValue))>>
    ELSE <<>>

FindStringSubmatch(authValue) ==
    IF /\ Len(authValue) >= 8
       /\ authValue[1] \in {"B", "b"}
       /\ SubSeq(authValue, 2, 7) = <<"e", "a", "r", "e", "r", " ">>
       /\ \A i \in 8..Len(authValue) : authValue[i] # "\n"
    THEN <<authValue, SubSeq(authValue, 8, Len(authValue))>>
    ELSE <<>>

(***************************************************************************)
(* AuthenticationMiddleware.ServeHTTP; next is the pc of the wrapped       *)
(* handler.                                                                *)
(***************************************************************************)
AuthenticationMiddlewareServeHTTP(r, next) ==
    /\ req[r].pc = "auth"
    /\ LET authValue == HeaderGetAuthorization(req[r])
           regexMatches == FindStringSubmatch(authValue)
           userToken == IF Len(regexMatches) > 0 THEN regexMatches[2] ELSE <<>>
       IN  IF userToken = Token
           THEN req' = [req EXCEPT ![r].pc = next,
                                   ![r].trace = @ \o <<"auth">>]
           ELSE req' = [req EXCEPT ![r].pc = "done",
                                   ![r].trace = @ \o <<"auth">>,
                                   ![r].v = DefaultHttpError(StatusUnauthorized),
                                   ![r].writer = WriteJsonResponse(@, DefaultHttpError(StatusUnauthorized))]
    /\ UNCHANGED <<Token, routes, handleCalls, store, logged, acked>>

(***************************************************************************)
(* baseHandler of the package's tests: the handler the middlewares and the *)
(* router wrap when they are exercised on their own.                       *)
(***************************************************************************)
BaseHandler(r, h) ==
    /\ req[r].pc = h
    /\ req' = [req EXCEPT ![r].pc = "done",
                          ![r].trace = @ \o <<h>>,
                          ![r].writer = [@ EXCEPT !.responseCode = StatusOK,
                                                  !.responseText = @ \o StatusText(StatusOK),
                                                  !.calls = @ \o <<"WriteHeader", "Write">>]]
    /\ UNCHANGED <<Token, routes, handleCalls, store, logged, acked>>

\* the server is done with the request of slot r; the slot takes the next one
Finish(r) ==
    /\ req[r].pc = "done"
    /\ req' = [req EXCEPT ![r] = IdleRequest]
    /\ UNCHANGED <<Token, routes, handleCalls, store, logged, acked>>

(***************************************************************************)
(* AuthenticationMiddleware on its own, wrapping baseHandler, as in the    *)
(* package's tests: any configured token, any Authorization header.        *)
(***************************************************************************)
TokenAlphabet == {"s", "t", " "}

Texts(n) == UNION {[1..k -> TokenAlphabet] : k \in 0..n}

Schemes ==
    {<<"B", "e", "a", "r", "e", "r">>, <<"b", "e", "a", "r", "e", "r">>, <<"B", "E", "A", "R", "E", "R">>, <<"B", "e", "A", "r", "E", "r">>, <<"b", "E", "A", "R", "E", "R">>, <<"B", "a", "s", "i", "c">>, <<>>}

AuthorizationValues ==
    {lead \o scheme \o sep \o text :
        lead \in {<<>>, <<" ">>}, scheme \in Schemes,
        sep \in {<<>>, <<" ">>}, text \in Texts(MaxTokenLen)}

InitAuth ==
    /\ Token \in Texts(MaxTokenLen)
    /\ routes = NoRoutes
    /\ handleCalls = <<>>
    /\ store = <<>>
    /\ req = [r \in Reqs |-> IdleRequest]
    /\ logged = 0
    /\ acked = {}

ReceiveAuth(r) ==
    /\ req[r].pc = "idle"
    /\ \E present \in BOOLEAN :
       \E value \in IF present THEN AuthorizationValues ELSE {<<>>} :
           req' = [req EXCEPT ![r].pc = "auth",
                              ![r].hasAuthorization = present,
                              ![r].Authorization = value]
    /\ UNCHANGED <<Token, routes, handleCalls, store, logged, acked>>

NextAuth ==
    \/ ReceiveAuth(1)
    \/ AuthenticationMiddlewareServeHTTP(1, "base")
    \/ BaseHandler(1, "base")
    \/ Finish(1)

SpecAuth == InitAuth /\ [][NextAuth]_vars

Presents(q, scheme) ==
    q.hasAuthorization /\ q.Authorization = scheme \o <<" ">> \o Token

\* C1 as stated: with an empty token every request reaches the wrapped handler
\* and none is answered 401, whatever its Authorization header.
C1_EmptyTokenPassesEveryRequest ==
    \A r \in Reqs :
        (Token = <<>> /\ req[r].pc = "done")
            => /\ Invoked(r, "base")
               /\ req[r].writer.responseCode # StatusUnauthorized

\* C2: with a non-empty secret a request reaches the wrapped handler if and only
\* if its Authorization header is exactly "Bearer <secret>" or "bearer <secret>";
\* every other request is answered with the 401 envelope of description
\* "Unauthorized" and the wrapped handler is not invoked.
C2_SecretGate ==
    \A r \in Reqs :
        (Token # <<>> /\ req[r].pc = "done")
            => IF Presents(req[r], <<"B", "e", "a", "r", "e", "r">>) \/ Presents(req[r], <<"b", "e", "a", "r", "e", "r">>)
               THEN /\ Invoked(r, "base")
                    /\ req[r].writer.responseCode = StatusOK
               ELSE /\ ~Invoked(r, "base")
                    /\ req[r].writer.responseCode = StatusUnauthorized
                    /\ req[r].writer.responseText = <<"{", "\"", "d", "e", "s", "c", "r", "i", "p", "t", "i", "o", "n", "\"", ":", "\"", "U", "n", "a", "u", "t", "h", "o", "r", "i", "z", "e", "d", "\"", "}">>

C2_Witness ==
    \E r \in Reqs :
        /\ Token # <<>>
        /\ req[r].pc = "done"
        /\ Presents(req[r], <<"b", "e", "a", "r", "e", "r">>)
        /\ Invoked(r, "base")

ToLower(c) ==
    CASE c = "B" -> "b"
      [] c = "E" -> "e"
      [] c = "A" -> "a"
      [] c = "R" -> "r"
      [] OTHER -> c

\* the header is the word bearer in some letter case, one space, and the secret
PresentsAnyCase(q) ==
    /\ q.hasAuthorization
    /\ Len(q.Authorization) = 7 + Len(Token)
    /\ [i \in 1..6 |-> ToLower(q.Authorization[i])] = <<"b", "e", "a", "r", "e", "r">>
    /\ SubSeq(q.Authorization, 7, Len(q.Authorization)) = <<" ">> \o Token

\* C3 as stated: with a secret configured, the word bearer in any letter case,
\* one space and the secret is accepted.
C3_AnyLetterCaseAccepted ==
    \A r \in Reqs :
        (Token # <<>> /\ req[r].pc = "done" /\ PresentsAnyCase(req[r]))
            => Invoked(r, "base")

\* C3 as amended: of the letter cases of the scheme word only "Bearer" and
\* "bearer" are accepted; any other letter case followed by one space and the
\* secret is answered 401 and the wrapped handler is not invoked.
C3_OnlyFirstLetterEitherCase ==
    \A r \in Reqs :
        (Token # <<>> /\ req[r].pc = "done" /\ PresentsAnyCase(req[r]))
            => IF SubSeq(req[r].Authorization, 1, 6) \in {<<"B", "e", "a", "r", "e", "r">>, <<"b", "e", "a", "r", "e", "r">>}
               THEN Invoked(r, "base")
               ELSE /\ ~Invoked(r, "base")
                    /\ req[r].writer.responseCode = StatusUnauthorized

C3_Witness ==
    \E r \in Reqs :
        /\ Token # <<>>
        /\ req[r].pc = "done"
        /\ req[r].hasAuthorization
        /\ req[r].Authorization = <<"B", "E", "A", "R", "E", "R", " ">> \o Token
        /\ req[r].writer.responseCode = StatusUnauthorized

(***************************************************************************)
(* WriteJsonResponse on its own: called once on a fresh writer with any    *)
(* value of the kinds the package's tests and the handlers hand to it.     *)
(***************************************************************************)
DescriptionAlphabet == {"a", "\"", "<"}

Descriptions(n) == UNION {[1..k -> DescriptionAlphabet] : k \in 0..n}

ErrorCodes ==
    {0, StatusBadRequest, StatusUnauthorized, StatusMethodNotAllowed,
     StatusTeapot, StatusInternalServerError}

WriteValues ==
    {Nil}
    \cup {HttpError(code, d) : code \in ErrorCodes, d \in Descriptions(MaxDescriptionLen)}
    \cup {DefaultHttpError(code) : code \in ErrorCodes}
    \cup {PlainError(d) : d \in Descriptions(MaxDescriptionLen)}
    \cup {StringValue(d) : d \in Descriptions(MaxDescriptionLen)}
    \cup {Unmarshalable(d) : d \in Descriptions(MaxDescriptionLen)}
    \cup {Slice(TRUE, <<>>), Slice(FALSE, <<>>)}

InitWrite ==
    /\ Token = <<>>
    /\ routes = NoRoutes
    /\ handleCalls = <<>>
    /\ store = <<>>
    /\ req = [r \in Reqs |-> IdleRequest]
    /\ logged = 0
    /\ acked = {}

ReceiveValue(r) ==
    /\ req[r].pc = "idle"
    /\ \E v \in WriteValues :
           req' = [req EXCEPT ![r].pc = "write", ![r].v = v]
    /\ UNCHANGED <<Token, routes, handleCalls, store, logged, acked>>

CallWriteJsonResponse(r) ==
    /\ req[r].pc = "write"
    /\ req' = [req EXCEPT ![r].pc = "done",
                          ![r].writer = WriteJsonResponse(@, req[r].v)]
    /\ UNCHANGED <<Token, routes, handleCalls, store, logged, acked>>

NextWrite ==
    \/ ReceiveValue(1)
    \/ CallWriteJsonResponse(1)
    \/ Finish(1)

SpecWrite == InitWrite /\ [][NextWrite]_vars

(***************************************************************************)
(* Reading a response body back: the text of a JSON string literal up to   *)
(* its closing quote, with the escapes \", \\ and \u00XX undone, and the   *)
(* description of a body of the form {"description":"..."}.  NotJson when  *)
(* the body is not of that form.                                           *)
(***************************************************************************)
NotJson == [ok |-> FALSE, s |-> <<>>, tail |-> <<>>]

UnicodeEscape(hex) ==
    CASE hex = <<"0", "0", "3", "c">> -> "<"
      [] hex = <<"0", "0", "3", "e">> -> ">"
      [] hex = <<"0", "0", "2", "6">> -> "&"
      [] OTHER -> "?"

\* the position of the first quote or backslash of the text, 0 when it has none
FirstSpecial(text) ==
    LET special == {i \in 1..Len(text) : text[i] \in {"\"", "\\"}}
    IN  IF special = {} THEN 0 ELSE CHOOSE i \in special : \A k \in special : i <= k

RECURSIVE ParseJsonString(_, _)
ParseJsonString(rest, acc) ==
    LET at == FirstSpecial(rest)
    IN  IF at = 0 THEN NotJson
        ELSE LET read == acc \o SubSeq(rest, 1, at - 1)
                 from == SubSeq(rest, at, Len(rest))
             IN  IF from[1] = "\""
                 THEN [ok |-> TRUE, s |-> read, tail |-> Tail(from)]
                 ELSE IF Len(from) >= 2 /\ from[2] \in {"\"", "\\"}
                      THEN ParseJsonString(SubSeq(from, 3, Len(from)), Append(read, from[2]))
                      ELSE IF Len(from) >= 6 /\ from[2] = "u"
                           THEN ParseJsonString(SubSeq(from, 7, Len(from)),
                                                Append(read, UnicodeEscape(SubSeq(from, 3, 6))))
                           ELSE NotJson

ParseDescriptionObject(text) ==
    LET prefix == <<"{", "\"", "d", "e", "s", "c", "r", "i", "p", "t", "i", "o", "n", "\"", ":", "\"">>
    IN  IF Len(text) > Len(prefix) /\ SubSeq(text, 1, Len(prefix)) = prefix
        THEN LET p == ParseJsonString(SubSeq(text, Len(prefix) + 1, Len(text)), <<>>)
             IN  IF p.ok /\ p.tail = <<"}">> THEN p ELSE NotJson
        ELSE NotJson

\* the body is a JSON object whose only field, description, is the string d
IsDescriptionObject(text, d) ==
    LET p == ParseDescriptionObject(text) IN p.ok /\ p.s = d

\* C10 as stated: for an error value WriteJsonResponse writes, for an HttpError,
\* its Code as the status and its Description as the description body, and for
\* any other error the status 500 and the error's message as the description.
C10_ErrorStatusAndDescription ==
    \A r \in Reqs :
        (req[r].pc = "done" /\ IsError(req[r].v))
            => IF req[r].v.t = "HttpError"
               THEN /\ req[r].writer.responseCode = req[r].v.Code
                    /\ IsDescriptionObject(req[r].writer.responseText, req[r].v.Description)
               ELSE /\ req[r].writer.responseCode = StatusInternalServerError
                    /\ IsDescriptionObject(req[r].writer.responseText, req[r].v.msg)

(***************************************************************************)
(* MethodRouter.                                                           *)
(***************************************************************************)
\* MethodRouter.Handle as a function of the route table
HandleAnyMethod(table, method, handler) ==
    [m \in DOMAIN table \cup {method} |-> IF m = method THEN handler ELSE table[m]]

Handle(table, method, handler) ==
    IF Len(method) > 0
    THEN [m \in DOMAIN table \cup {method} |-> IF m = method THEN handler ELSE table[m]]
    ELSE table

\* MethodRouter.ServeHTTP
MethodRouterServeHTTP(r) ==
    /\ req[r].pc = "router"
    /\ LET routeIsRegistered == req[r].Method \in DOMAIN routes
       IN  IF routeIsRegistered
           THEN req' = [req EXCEPT ![r].pc = routes[req[r].Method],
                                   ![r].trace = @ \o <<"router">>]
           ELSE req' = [req EXCEPT ![r].pc = "done",
                                   ![r].trace = @ \o <<"router">>,
                                   ![r].v = DefaultHttpError(StatusMethodNotAllowed),
                                   ![r].writer = WriteJsonResponse(@, DefaultHttpError(StatusMethodNotAllowed))]
    /\ UNCHANGED <<Token, routes, handleCalls, store, logged, acked>>

(***************************************************************************)
(* MethodRouter on its own, as in the package's tests: Handle calls with   *)
(* any method name, made while no request is being served, and requests of *)
(* any method.                                                             *)
(***************************************************************************)
Methods == {"", "GET", "POST", "PUT", "DELETE"}

UnitHandlers == {"base", "other"}

InitRouter ==
    /\ Token = <<>>
    /\ routes = NoRoutes
    /\ handleCalls = <<>>
    /\ store = <<>>
    /\ req = [r \in Reqs |-> IdleRequest]
    /\ logged = 0
    /\ acked = {}

MethodRouterHandle ==
    /\ Len(handleCalls) < MaxHandleCalls
    /\ \A r \in Reqs : req[r].pc = "idle"
    /\ \E method \in Methods, handler \in UnitHandlers :
           /\ routes' = Handle(routes, method, handler)
           /\ handleCalls' = Append(handleCalls, [method |-> method, handler |-> handler])
    /\ UNCHANGED <<Token, store, req, logged, acked>>

ReceiveRouter(r) ==
    /\ req[r].pc = "idle"
    /\ \E method \in Methods :
           req' = [req EXCEPT ![r].pc = "router", ![r].Method = method]
    /\ UNCHANGED <<Token, routes, handleCalls, store, logged, acked>>

NextRouter ==
    \/ MethodRouterHandle
    \/ ReceiveRouter(1)
    \/ MethodRouterServeHTTP(1)
    \/ BaseHandler(1, "base")
    \/ BaseHandler(1, "other")
    \/ Finish(1)

SpecRouter == InitRouter /\ [][NextRouter]_vars

\* the Handle calls made with the method name m
CallsFor(m) == {i \in 1..Len(handleCalls) : handleCalls[i].method = m}

LastCallFor(m) == CHOOSE i \in CallsFor(m) : \A j \in CallsFor(m) : j <= i

\* C5: a request is delegated to the handler most recently registered for
\* exactly its method name; a request whose method has no registration, and any
\* request with an empty method, is answered with the 405 envelope and no
\* handler is invoked.
C5_RouterDispatch ==
    \A r \in Reqs :
        req[r].pc = "done"
            => IF req[r].Method # "" /\ CallsFor(req[r].Method) # {}
               THEN /\ req[r].trace = <<"router", handleCalls[LastCallFor(req[r].Method)].handler>>
                    /\ req[r].writer.responseCode = StatusOK
               ELSE /\ req[r].trace = <<"router">>
                    /\ req[r].writer.responseCode = StatusMethodNotAllowed
                    /\ req[r].writer.responseText = <<"{", "\"", "d", "e", "s", "c", "r", "i", "p", "t", "i", "o", "n", "\"", ":", "\"", "M", "e", "t", "h", "o", "d", " ", "N", "o", "t", " ", "A", "l", "l", "o", "w", "e", "d", "\"", "}">>

C5_Witness ==
    \E r \in Reqs :
        /\ req[r].pc = "done"
        /\ req[r].Method = "GET"
        /\ Cardinality(CallsFor("GET")) >= 2
        /\ CallsFor("") # {}
        /\ handleCalls[1].handler # handleCalls[LastCallFor("GET")].handler
        /\ handleCalls[1].method = "GET"
        /\ Invoked(r, handleCalls[LastCallFor("GET")].handler)

(***************************************************************************)
(* The event schema (resources/events_schema.json) as the validator        *)
(* applies it to a parsed body: the list of KeyErrors, each a property     *)
(* path and a message.  The wording of the messages is the validator       *)
(* library's.                                                              *)
(***************************************************************************)
KeyError(PropertyPath, Message) == [PropertyPath |-> PropertyPath, Message |-> Message]

TypeName(lit) ==
    CASE lit.t = "number" -> <<"n", "u", "m", "b", "e", "r">>
      [] lit.t = "string" -> <<"s", "t", "r", "i", "n", "g">>
      [] lit.t = "object" -> <<"o", "b", "j", "e", "c", "t">>

RequiredProperties == <<"timestamp", "summary", "source", "attributes">>

PropertyType(k) ==
    CASE k = "timestamp" -> "number"
      [] k = "summary" -> "string"
      [] k = "source" -> "object"
      [] k = "attributes" -> "object"

\* the violations of the keywords of one property: type, then minimum or minLength
PropertyErrorsNoMinimum(k, lit) ==
    IF lit.t # PropertyType(k)
    THEN <<KeyError(<<"/">> \o KeyText(k),
                    <<"t", "y", "p", "e", " ", "s", "h", "o", "u", "l", "d", " ", "b", "e", " ">> \o TypeName([t |-> PropertyType(k)])
                    \o <<",", " ", "g", "o", "t", " ">> \o TypeName(lit))>>
    ELSE IF k = "summary" /\ Len(lit.s) < 1
         THEN <<KeyError(<<"/">> \o KeyText(k), <<"m", "i", "n", " ", "l", "e", "n", "g", "t", "h", " ", "o", "f", " ", "1", " ", "c", "h", "a", "r", "a", "c", "t", "e", "r", "s", " ", "r", "e", "q", "u", "i", "r", "e", "d", ":", " ">>)>>
    ELSE <<>>

PropertyErrors(k, lit) ==
    IF lit.t # PropertyType(k)
    THEN <<KeyError(<<"/">> \o KeyText(k),
                    <<"t", "y", "p", "e", " ", "s", "h", "o", "u", "l", "d", " ", "b", "e", " ">> \o TypeName([t |-> PropertyType(k)])
                    \o <<",", " ", "g", "o", "t", " ">> \o TypeName(lit))>>
    ELSE IF k = "timestamp" /\ (lit.hi = 0 /\ lit.lo < 0)
         THEN <<KeyError(<<"/">> \o KeyText(k), <<"m", "u", "s", "t", " ", "b", "e", " ", "g", "r", "e", "a", "t", "e", "r", " ", "t", "h", "a", "n", " ", "o", "r", " ", "e", "q", "u", "a", "l", " ", "t", "o", " ", "0">>)>>
    ELSE IF k = "summary" /\ Len(lit.s) < 1
         THEN <<KeyError(<<"/">> \o KeyText(k), <<"m", "i", "n", " ", "l", "e", "n", "g", "t", "h", " ", "o", "f", " ", "1", " ", "c", "h", "a", "r", "a", "c", "t", "e", "r", "s", " ", "r", "e", "q", "u", "i", "r", "e", "d", ":", " ">>)>>
    ELSE <<>>

RECURSIVE SchemaErrorsFor(_, _)
SchemaErrorsFor(m, keys) ==
    IF keys = <<>> THEN <<>>
    ELSE (IF Head(keys) \in DOMAIN m
          THEN PropertyErrors(Head(keys), m[Head(keys)])
          ELSE <<KeyError(<<"/">>, <<"\"">> \o KeyText(Head(keys)) \o <<"\"", " ", "v", "a", "l", "u", "e", " ", "i", "s", " ", "r", "e", "q", "u", "i", "r", "e", "d">>)>>)
         \o SchemaErrorsFor(m, Tail(keys))

SchemaErrors(lit) ==
    IF lit.t # "object"
    THEN <<KeyError(<<"/">>, <<"t", "y", "p", "e", " ", "s", "h", "o", "u", "l", "d", " ", "b", "e", " ", "o", "b", "j", "e", "c", "t", ",", " ", "g", "o", "t", " ">> \o TypeName(lit))>>
    ELSE SchemaErrorsFor(lit.m, RequiredProperties)

(***************************************************************************)
(* A request body as ioutil.ReadAll and the validator see it: Unreadable   *)
(* (the read fails), Garbage (bytes that are no JSON text), or JsonBody of *)
(* a literal.  schema.ValidateBytes returns the violations, or an error    *)
(* when the bytes do not parse.                                            *)
(***************************************************************************)
Unreadable == [t |-> "unreadable"]

Garbage == [t |-> "garbage"]

JsonBody(lit) == [t |-> "json", lit |-> lit]

ValidateBytes(d) ==
    IF d.t = "json"
    THEN [validationError |-> SchemaErrors(d.lit), err |-> Nil]
    ELSE [validationError |-> <<>>, err |-> PlainError(<<"e", "r", "r", "o", "r", " ", "p", "a", "r", "s", "i", "n", "g", " ", "J", "S", "O", "N", " ", "b", "y", "t", "e", "s">>)]

(***************************************************************************)
(* ValidationError.Error                                                   *)
(***************************************************************************)
\* a rendering that leaves the double quotes of the message
ReplaceQuotesKeeping(s) == s

ReplaceQuotes(s) == [i \in 1..Len(s) |-> IF s[i] = "\"" THEN "'" ELSE s[i]]

RECURSIVE ValidationErrorFold(_, _)
ValidationErrorFold(self, validationErrorString) ==
    IF self = <<>> THEN validationErrorString
    ELSE LET ve == Head(self)
             replaced == ReplaceQuotes(ve.Message)
             veString == IF Len(ve.PropertyPath) # 0 /\ ve.PropertyPath # <<"/">>
                         THEN ve.PropertyPath \o <<" ">> \o replaced
                         ELSE replaced
         IN  ValidationErrorFold(Tail(self),
                 IF Len(validationErrorString) = 0
                 THEN <<"T", "h", "e", " ", "j", "s", "o", "n", " ", "d", "i", "d", " ", "n", "o", "t", " ", "m", "a", "t", "c", "h", " ", "t", "h", "e", " ", "e", "x", "p", "e", "c", "t", "e", "d", " ", "f", "o", "r", "m", "a", "t", ":", " ">> \o veString
                 ELSE validationErrorString \o <<";", " ">> \o veString)

ValidationErrorError(self) == ValidationErrorFold(self, <<>>)

(***************************************************************************)
(* The store.  A stored document is a map with its _id.  InsertOne gives a *)
(* document without _id a fresh ObjectID and refuses a document whose _id  *)
(* is already stored.  Find returns, in insertion order, the documents     *)
(* whose field at every path of the filter exists and equals the filter's  *)
(* value, strings, numbers and identifiers being different types.          *)
(***************************************************************************)
DeadlineExceeded == PlainError(<<"c", "o", "n", "t", "e", "x", "t", " ", "d", "e", "a", "d", "l", "i", "n", "e", " ", "e", "x", "c", "e", "e", "d", "e", "d">>)

Canceled == PlainError(<<"c", "o", "n", "t", "e", "x", "t", " ", "c", "a", "n", "c", "e", "l", "e", "d">>)

ConnectionRefused == PlainError(<<"c", "o", "n", "n", "e", "c", "t", "i", "o", "n", " ", "r", "e", "f", "u", "s", "e", "d">>)

StoreErrors == {DeadlineExceeded, Canceled, ConnectionRefused}

(***************************************************************************)
(* Contexts.  A context has a deadline in seconds from its creation, or    *)
(* none, and is or is not derived from the context of the request, which   *)
(* is cancelled when the client closes the connection.                     *)
(***************************************************************************)
\* 10*time.Second
TimeoutSeconds == 10

NoDeadline == 0

\* request.Context(): main sets no timeout on the http.Server
RequestContext == [deadline |-> NoDeadline, ofRequest |-> TRUE]

\* a timed context made from context.Background() in place of the request's
WithTimeoutOfBackground(parent, seconds) == [deadline |-> seconds, ofRequest |-> FALSE]

\* context.WithTimeout(parent, seconds)
WithTimeout(parent, seconds) ==
    [parent EXCEPT !.deadline = IF @ = NoDeadline \/ seconds < @ THEN seconds ELSE @]

\* the seconds the store may need for an operation: within the timeout, and beyond it
\* the time of a store that never answers: beyond every deadline
Unanswered == TimeoutSeconds + 2

StoreSeconds == {1, TimeoutSeconds + 1, Unanswered}

\* the error a store operation under ctx is aborted with, Nil when it runs to its end
ContextErr(ctx, took, clientGone) ==
    IF ctx.ofRequest /\ clientGone THEN Canceled
    ELSE IF ctx.deadline # NoDeadline /\ took > ctx.deadline THEN DeadlineExceeded
    ELSE Nil

StoreOperation(op, ctx, took, clientGone) ==
    [op |-> op, ctx |-> ctx, took |-> took, clientGone |-> clientGone,
     aborted |-> ContextErr(ctx, took, clientGone)]

\* an insert that loses the attributes of the document
InsertedDocumentDroppingAttributes(document) ==
    MapValue([k \in (DOMAIN document.m \ {"attributes"}) \cup {"_id"} |->
                 IF k = "_id" THEN ObjectID(Len(store) + 1) ELSE document.m[k]])

InsertedDocument(document) ==
    IF "_id" \in DOMAIN document.m
    THEN document
    ELSE MapValue([k \in DOMAIN document.m \cup {"_id"} |->
                      IF k = "_id" THEN ObjectID(Len(store) + 1) ELSE document.m[k]])

\* a write that replaces the newest stored document
InsertOneReplacingNewest(collection, document) ==
    IF collection = <<>> THEN <<InsertedDocument(document)>>
    ELSE [collection EXCEPT ![Len(collection)] = InsertedDocument(document)]

\* a write that stores the document twice
InsertOneTwice(collection, document) ==
    Append(Append(collection, InsertedDocument(document)), InsertedDocument(document))

\* db.InsertOne(ctx, document), when the store applies it
InsertOne(collection, document) == Append(collection, InsertedDocument(document))

RECURSIVE FieldAt(_, _)
FieldAt(v, path) ==
    IF path = <<>> THEN v
    ELSE IF v.t = "map" /\ Head(path) \in DOMAIN v.m
         THEN FieldAt(v.m[Head(path)], Tail(path))
    ELSE Nil

MatchesAnyCondition(document, filter) ==
    \E k \in DOMAIN filter : FieldAt(document, k) = filter[k]

Matches(document, filter) ==
    \A k \in DOMAIN filter : FieldAt(document, k) = filter[k]

Find(filter) == SelectSeq(store, LAMBDA document : Matches(document, filter))

(***************************************************************************)
(* CreateFilterFromQuery.  A query key is a dotted field path, written as  *)
(* the sequence of its segments; queryParams maps each key to the list of  *)
(* its values.                                                             *)
(***************************************************************************)
HexDigits == {"0", "1", "2", "3", "4", "5", "6", "7", "8", "9", "a", "b", "c", "d", "e", "f"}

HexDigitValue(c) == CHOOSE d \in 0..15 : HexDigit(d) = c

RECURSIVE HexNumber(_)
HexNumber(s) ==
    IF s = <<>> THEN 0
    ELSE 16 * HexNumber(SubSeq(s, 1, Len(s) - 1)) + HexDigitValue(s[Len(s)])

ObjectIDHexLen == 24

\* a decoding that yields the first identifier of the store for a malformed text
ObjectIDFromHexFirstIdentifier(s) ==
    IF Len(s) = ObjectIDHexLen /\ \A i \in 1..Len(s) : s[i] \in HexDigits
    THEN ObjectID(HexNumber(s))
    ELSE ObjectID(1)

\* primitive.ObjectIDFromHex: the identifier, or the zero identifier and an error
ObjectIDFromHex(s) ==
    IF Len(s) = ObjectIDHexLen /\ \A i \in 1..Len(s) : s[i] \in HexDigits
    THEN ObjectID(HexNumber(s))
    ELSE ObjectID(0)

\* the last value of the key
QueryGetLast(queryParams, k) ==
    IF queryParams[k] = <<>> THEN <<>> ELSE queryParams[k][Len(queryParams[k])]

\* url.Values.Get: the first value of the key, "" when it has none
QueryGet(queryParams, k) ==
    IF queryParams[k] = <<>> THEN <<>> ELSE queryParams[k][1]

CreateFilterFromQueryLastValue(queryParams) ==
    [k \in DOMAIN queryParams |->
        IF k = <<"_id">>
        THEN ObjectIDFromHex(QueryGetLast(queryParams, k))
        ELSE StringValue(QueryGetLast(queryParams, k))]

\* a filter that reads the value "0" as the number 0
CreateFilterFromQueryParsingNumbers(queryParams) ==
    [k \in DOMAIN queryParams |->
        LET queryValueString == QueryGet(queryParams, k)
        IN  IF k = <<"_id">> THEN ObjectIDFromHex(queryValueString)
            ELSE IF queryValueString = <<"0">> THEN Float64(0, 0)
            ELSE StringValue(queryValueString)]

CreateFilterFromQuery(queryParams) ==
    [k \in DOMAIN queryParams |->
        LET queryValueString == QueryGet(queryParams, k)
        IN  IF k = <<"_id">>
            THEN ObjectIDFromHex(queryValueString)
            ELSE StringValue(queryValueString)]

(***************************************************************************)
(* LoggingMiddleware.ServeHTTP; next is the pc of the wrapped handler.     *)
(***************************************************************************)
\* a logger that drops the entry
LoggerPrintlnDiscarding(entries) == entries

\* self.Logger.Println("New Request"): one more entry in the log
LoggerPrintln(entries) == entries + 1

LoggingMiddlewareServeHTTP(r, next) ==
    /\ req[r].pc = "log"
    /\ logged' = LoggerPrintln(logged)
    /\ req' = [req EXCEPT ![r].pc = next, ![r].trace = @ \o <<"log">>]
    /\ UNCHANGED <<Token, routes, handleCalls, store, acked>>

(***************************************************************************)
(* The http.ServeMux of main, with the one pattern "/events": the router   *)
(* for that path, net/http's 404 page for any other.                       *)
(***************************************************************************)
ServeMuxServeHTTP(r) ==
    /\ req[r].pc = "mux"
    /\ IF req[r].Path = <<"/", "e", "v", "e", "n", "t", "s">>
       THEN req' = [req EXCEPT ![r].pc = "router", ![r].trace = @ \o <<"mux">>]
       ELSE req' = [req EXCEPT ![r].pc = "done",
                               ![r].trace = @ \o <<"mux">>,
                               ![r].writer =
                                   [header |-> [ContentType |-> <<"t", "e", "x", "t", "/", "p", "l", "a", "i", "n", ";", " ", "c", "h", "a", "r", "s", "e", "t", "=", "u", "t", "f", "-", "8">>,
                                                ContentLength |-> <<>>],
                                    responseCode |-> StatusNotFound,
                                    responseText |-> @.responseText \o <<"4", "0", "4", " ", "p", "a", "g", "e", " ", "n", "o", "t", " ", "f", "o", "u", "n", "d">> \o <<"\n">>,
                                    calls |-> @.calls \o <<"Header.Set", "Header.Set", "WriteHeader", "Write">>]]
    /\ UNCHANGED <<Token, routes, handleCalls, store, logged, acked>>

(***************************************************************************)
(* EventsAddHandler, in three steps: reading, validating and parsing the   *)
(* body (answering at once when that fails), InsertOne, and the response.  *)
(* InsertOne runs under a context of 10 seconds made from the request's.   *)
(* An InsertOne that its context aborts leaves the store as it was, or,    *)
(* when the store had applied the write by then, has inserted the document *)
(* all the same.                                                           *)
(***************************************************************************)
EventsAddHandlerCheck(d) ==
    LET readErr == IF d = Unreadable THEN DefaultHttpError(StatusBadRequest) ELSE Nil
        validated == ValidateBytes(d)
        err == IF readErr # Nil THEN readErr
               ELSE IF validated.err # Nil THEN DefaultHttpError(StatusBadRequest)
               ELSE IF Len(validated.validationError) > 0
                    THEN HttpError(StatusBadRequest, ValidationErrorError(validated.validationError))
               ELSE Nil
    IN  [err |-> err,
         validationError |-> IF readErr = Nil THEN validated.validationError ELSE <<>>,
         event |-> IF err = Nil THEN Unmarshal(d.lit) ELSE Nil]

EventsAddHandlerValidate(r, bodies) ==
    /\ req[r].pc = "add"
    /\ \E d \in bodies :
           LET checked == EventsAddHandlerCheck(d)
           IN  IF checked.err = Nil
               THEN req' = [req EXCEPT ![r].pc = "insert",
                                       ![r].trace = @ \o <<"add">>,
                                       ![r].Body = d,
                                       ![r].event = checked.event]
               ELSE req' = [req EXCEPT ![r].pc = "done",
                                       ![r].trace = @ \o <<"add">>,
                                       ![r].Body = d,
                                       ![r].validationError = checked.validationError,
                                       ![r].err = checked.err,
                                       ![r].v = checked.err,
                                       ![r].writer = WriteJsonResponse(@, checked.err)]
    /\ UNCHANGED <<Token, routes, handleCalls, store, logged, acked>>

EventsAddHandlerInsert(r) ==
    /\ req[r].pc = "insert"
    /\ \E took \in StoreSeconds, disconnects \in BOOLEAN :
           LET timedContext == WithTimeout(RequestContext, TimeoutSeconds)
               clientGone == req[r].gone \/ disconnects
               operation == StoreOperation("InsertOne", timedContext, took, clientGone)
               document == InsertedDocument(req[r].event)
               duplicate == \E i \in 1..Len(store) : store[i].m["_id"] = document.m["_id"]
               returned(e) == [req EXCEPT ![r].pc = "addRespond",
                                          ![r].trace = @ \o <<"InsertOne">>,
                                          ![r].err = e,
                                          ![r].insertedID =
                                              IF e = Nil THEN document.m["_id"] ELSE Nil,
                                          ![r].gone = clientGone,
                                          ![r].ops = Append(@, operation)]
           IN  IF operation.aborted # Nil
               THEN /\ req' = returned(operation.aborted)
                    /\ \/ store' = store
                       \/ ~duplicate /\ store' = InsertOne(store, req[r].event)
               ELSE /\ took # Unanswered
                    /\ \/ /\ ~duplicate
                          /\ store' = InsertOne(store, req[r].event)
                          /\ req' = returned(Nil)
                       \/ /\ duplicate
                          /\ store' = store
                          /\ req' = returned(PlainError(<<"d", "u", "p", "l", "i", "c", "a", "t", "e", " ", "k", "e", "y">>))
                       \/ /\ store' = store
                          /\ req' = returned(ConnectionRefused)
    /\ UNCHANGED <<Token, routes, handleCalls, logged, acked>>

EventsAddHandlerRespond(r) ==
    /\ req[r].pc = "addRespond"
    /\ req' = [req EXCEPT ![r].pc = "done",
                          ![r].v = req[r].err,
                          ![r].writer = WriteJsonResponse(@, req[r].err)]
    /\ acked' = IF req[r].err = Nil THEN acked \cup {req[r].Body.lit} ELSE acked
    /\ UNCHANGED <<Token, routes, handleCalls, store, logged>>

(***************************************************************************)
(* EventsQueryHandler, in three steps: the filter and Find, cursor.All,    *)
(* and the response.  The cursor holds the documents Find matched.  Find   *)
(* runs under a context of 10 seconds made from the request's, cursor.All  *)
(* under the request's context itself.                                     *)
(***************************************************************************)
Cursor(batch) == [t |-> "cursor", batch |-> batch]

\* var results []map[string]interface{}: the nil slice, in place of make
NilResults == Slice(TRUE, <<>>)

\* var results = make([]map[string]interface{}, 0)
NewResults == Slice(FALSE, <<>>)

\* cursor.All(ctx, &results): results cut to length 0, then the documents appended
CursorAll(results, batch) == Slice(results.isNil /\ batch = <<>>, batch)

\* a handler that streams the results whatever Find returned
EventsQueryHandlerAfterFindAlwaysAll(err) == "all"

\* if err == nil { err = cursor.All(...) }: the step that follows Find
EventsQueryHandlerAfterFind(err) == IF err = Nil THEN "all" ELSE "queryRespond"

EventsQueryHandlerFind(r, queries) ==
    /\ req[r].pc = "query"
    /\ \E queryParams \in queries, took \in StoreSeconds, disconnects \in BOOLEAN :
           LET filter == CreateFilterFromQuery(queryParams)
               timedContext == WithTimeout(RequestContext, TimeoutSeconds)
               clientGone == req[r].gone \/ disconnects
               operation == StoreOperation("Find", timedContext, took, clientGone)
               called == [req EXCEPT ![r].trace = @ \o <<"query", "Find">>,
                                     ![r].Query = queryParams,
                                     ![r].filter = filter,
                                     ![r].results = NewResults,
                                     ![r].gone = clientGone,
                                     ![r].ops = Append(@, operation)]
           IN  IF operation.aborted # Nil
               THEN req' = [called EXCEPT ![r].pc = EventsQueryHandlerAfterFind(operation.aborted),
                                          ![r].err = operation.aborted]
               ELSE /\ took # Unanswered
                    /\ \/ req' = [called EXCEPT ![r].pc = EventsQueryHandlerAfterFind(Nil),
                                                ![r].cursor = Cursor(Find(filter))]
                       \/ req' = [called EXCEPT ![r].pc = EventsQueryHandlerAfterFind(ConnectionRefused),
                                                ![r].err = ConnectionRefused]
    /\ UNCHANGED <<Token, routes, handleCalls, store, logged, acked>>

EventsQueryHandlerAll(r) ==
    /\ req[r].pc = "all"
    /\ \E took \in StoreSeconds, disconnects \in BOOLEAN :
           LET clientGone == req[r].gone \/ disconnects
               operation == StoreOperation("All", RequestContext, took, clientGone)
               called == [req EXCEPT ![r].pc = "queryRespond",
                                     ![r].trace = @ \o <<"All">>,
                                     ![r].gone = clientGone,
                                     ![r].ops = Append(@, operation)]
           IN  IF operation.aborted # Nil
               THEN req' = [called EXCEPT ![r].err = operation.aborted]
               ELSE IF took = Unanswered
               THEN req' = [called EXCEPT ![r].pc = "allWaiting"]
               ELSE \/ req' = [called EXCEPT ![r].results = CursorAll(@, req[r].cursor.batch)]
                    \/ req' = [called EXCEPT ![r].err = ConnectionRefused]
    /\ UNCHANGED <<Token, routes, handleCalls, store, logged, acked>>

\* the client closes the connection while cursor.All waits for the store:
\* request.Context() is cancelled and cursor.All returns its error
EventsQueryHandlerAllCanceled(r) ==
    /\ req[r].pc = "allWaiting"
    /\ LET operation == StoreOperation("All", RequestContext, Unanswered, TRUE)
       IN  req' = [req EXCEPT ![r].pc = "queryRespond",
                              ![r].gone = TRUE,
                              ![r].err = operation.aborted,
                              ![r].ops = [@ EXCEPT ![Len(@)] = operation]]
    /\ UNCHANGED <<Token, routes, handleCalls, store, logged, acked>>

EventsQueryHandlerRespond(r) ==
    /\ req[r].pc = "queryRespond"
    /\ LET v == IF req[r].err = Nil THEN req[r].results ELSE req[r].err
       IN  req' = [req EXCEPT ![r].pc = "done",
                              ![r].v = v,
                              ![r].writer = WriteJsonResponse(@, v)]
    /\ UNCHANGED <<Token, routes, handleCalls, store, logged, acked>>

(***************************************************************************)
(* ValidationError.Error on its own, as EventsAddHandler uses it: applied  *)
(* to any list of KeyErrors a validator can return, and the description of *)
(* the 400 answer made of it.                                              *)
(***************************************************************************)
MaxKeyErrors == 2

MaxMessageLen == 1

PropertyPaths == {<<>>, <<"/">>, <<"/", "a">>, <<"/", "\"">>}

Messages == UNION {[1..k -> {"a", "\""}] : k \in 0..MaxMessageLen}

ValidationErrors ==
    UNION {[1..k -> {KeyError(p, m) : p \in PropertyPaths, m \in Messages}] : k \in 0..MaxKeyErrors}

InitValidation ==
    /\ Token = <<>>
    /\ routes = NoRoutes
    /\ handleCalls = <<>>
    /\ store = <<>>
    /\ req = [r \in Reqs |-> IdleRequest]
    /\ logged = 0
    /\ acked = {}

ReceiveValidationError(r) ==
    /\ req[r].pc = "idle"
    /\ \E validationError \in ValidationErrors :
           req' = [req EXCEPT ![r].pc = "invalid", ![r].validationError = validationError]
    /\ UNCHANGED <<Token, routes, handleCalls, store, logged, acked>>

\* err = mux.HttpError{Code: 400, Description: validationError.Error()}, and the answer
CallValidationErrorError(r) ==
    /\ req[r].pc = "invalid"
    /\ LET err == HttpError(StatusBadRequest, ValidationErrorError(req[r].validationError))
       IN  req' = [req EXCEPT ![r].pc = "done",
                              ![r].trace = @ \o <<"ValidationError.Error">>,
                              ![r].err = err,
                              ![r].v = err,
                              ![r].writer = WriteJsonResponse(@, err)]
    /\ UNCHANGED <<Token, routes, handleCalls, store, logged, acked>>

NextValidation ==
    \/ ReceiveValidationError(1)
    \/ CallValidationErrorError(1)
    \/ Finish(1)

SpecValidation == InitValidation /\ [][NextValidation]_vars

(***************************************************************************)
(* CreateFilterFromQuery on its own, one step per statement: the filter is *)
(* made empty, the range loop visits the keys of queryParams in any order  *)
(* and assigns filter[k] for each, and the filter is returned.             *)
(***************************************************************************)
MaxValues == 2

FilterKeys == {<<"_id">>, <<"summary">>, <<"source", "service_name">>}

FilterValues == {<<>>, <<"s">>, ObjectIDHex(1)}

QueryParams ==
    UNION {[keys -> UNION {[1..n -> FilterValues] : n \in 1..MaxValues}] : keys \in SUBSET FilterKeys}

InitFilter ==
    /\ Token = <<>>
    /\ routes = NoRoutes
    /\ handleCalls = <<>>
    /\ store = <<>>
    /\ req = [r \in Reqs |-> IdleRequest]
    /\ logged = 0
    /\ acked = {}

\* var filter = make(map[string]interface{})
CreateFilterFromQueryMake(r) ==
    /\ req[r].pc = "idle"
    /\ \E queryParams \in QueryParams :
           req' = [req EXCEPT ![r].pc = "range",
                              ![r].trace = @ \o <<"CreateFilterFromQuery">>,
                              ![r].Query = queryParams,
                              ![r].filter = MapValue(NoQuery)]
    /\ UNCHANGED <<Token, routes, handleCalls, store, logged, acked>>

\* one iteration of for k, _ := range queryParams, for a key not visited yet
CreateFilterFromQueryRange(r) ==
    /\ req[r].pc = "range"
    /\ \E k \in DOMAIN req[r].Query \ DOMAIN req[r].filter.m :
           LET queryValueString == QueryGet(req[r].Query, k)
               v == IF k = <<"_id">>
                    THEN ObjectIDFromHex(queryValueString)
                    ELSE StringValue(queryValueString)
           IN  req' = [req EXCEPT ![r].filter =
                           MapValue([j \in DOMAIN @.m \cup {k} |-> IF j = k THEN v ELSE @.m[j]])]
    /\ UNCHANGED <<Token, routes, handleCalls, store, logged, acked>>

\* return filter, once every key has been visited
CreateFilterFromQueryReturn(r) ==
    /\ req[r].pc = "range"
    /\ DOMAIN req[r].Query = DOMAIN req[r].filter.m
    /\ req' = [req EXCEPT ![r].pc = "done"]
    /\ UNCHANGED <<Token, routes, handleCalls, store, logged, acked>>

NextFilter ==
    \/ CreateFilterFromQueryMake(1)
    \/ CreateFilterFromQueryRange(1)
    \/ CreateFilterFromQueryReturn(1)
    \/ Finish(1)

SpecFilter == InitFilter /\ [][NextFilter]_vars

(***************************************************************************)
(* The service as main assembles it: the router with POST and GET for      *)
(* "/events" in a ServeMux, wrapped by the LoggingMiddleware, wrapped by   *)
(* the AuthenticationMiddleware.  Requests are served concurrently, one    *)
(* per slot.                                                               *)
(***************************************************************************)
MainRoutesWithPut ==
    Handle(Handle(Handle(NoRoutes, "POST", "add"), "GET", "query"), "PUT", "add")

MainRoutes == Handle(Handle(NoRoutes, "POST", "add"), "GET", "query")

\* a chain that logs the request before it authenticates it
ServeHandlerChainLoggingFirst == <<"log", "auth", "mux">>

\* serveHandler: the multiplexer wrapped in logging, wrapped in authentication
ServeHandlerChain == <<"auth", "log", "mux">>

\* the handler that h wraps
Wrapped(h) ==
    ServeHandlerChain[(CHOOSE i \in 1..Len(ServeHandlerChain) : ServeHandlerChain[i] = h) + 1]

ServiceTokens == {<<>>, <<"s">>}

ServiceAuthorizations == {<<"B", "e", "a", "r", "e", "r", " ", "s">>, <<"B", "e", "a", "r", "e", "r", " ", "t">>}

ServiceMethods == {"GET", "POST", "PUT"}

ServicePaths == {<<"/", "e", "v", "e", "n", "t", "s">>, <<"/", "o", "t", "h", "e", "r">>}

EventLit(timestamp, summary, source, attributes) ==
    ObjectLit([k \in {"timestamp", "summary", "source", "attributes"} |->
                  CASE k = "timestamp" -> timestamp
                    [] k = "summary" -> summary
                    [] k = "source" -> source
                    [] k = "attributes" -> attributes])

EmptyObject == ObjectLit([k \in {} |-> Nil])

ServiceNameS == ObjectLit([k \in {"service_name"} |-> StringValue(<<"s">>)])

CustomerNameT == ObjectLit([k \in {"customer_name"} |-> StringValue(<<"t">>)])

\* an object literal without the key k, and one with the key k set to v
Without(lit, k) == ObjectLit([j \in DOMAIN lit.m \ {k} |-> lit.m[j]])

With(lit, k, v) == ObjectLit([j \in DOMAIN lit.m \cup {k} |-> IF j = k THEN v ELSE lit.m[j]])

BaseEvent == EventLit(NumberLit(0, 0), StringValue(<<"a">>), ServiceNameS, EmptyObject)

ValidEvents ==
    {BaseEvent,
     EventLit(NumberLit(0, 0), StringValue(<<"a">>), EmptyObject, EmptyObject),
     EventLit(NumberLit(0, 1), StringValue(<<"b">>), ServiceNameS, CustomerNameT),
     EventLit(NumberLit(1, 1), StringValue(<<"a">>), EmptyObject, EmptyObject),
     With(BaseEvent, "_id", StringValue(<<"s">>))}

InvalidEvents ==
    {Without(BaseEvent, k) : k \in {"timestamp", "summary", "source", "attributes"}}
    \cup {Without(Without(BaseEvent, "timestamp"), "summary")}
    \cup {With(BaseEvent, "timestamp", v) : v \in {NumberLit(0, -1), StringValue(<<"0">>)}}
    \cup {With(BaseEvent, "summary", v) : v \in {StringValue(<<>>), NumberLit(0, 1)}}
    \cup {With(BaseEvent, "source", StringValue(<<"s">>))}
    \cup {With(BaseEvent, "attributes", NumberLit(0, 1))}
    \cup {NumberLit(0, 1), StringValue(<<"a">>)}

ServiceBodies ==
    {Unreadable, Garbage} \cup {JsonBody(lit) : lit \in ValidEvents \cup InvalidEvents}

ServiceQueries ==
    {NoQuery,
     [k \in {<<"source", "service_name">>} |-> <<<<"s">>>>],
     [k \in {<<"source", "service_name">>} |-> <<<<"t">>>>],
     [k \in {<<"source", "service_name">>} |-> <<<<"s">>, <<"t">>>>],
     [k \in {<<"source", "service_name">>, <<"summary">>} |-> <<<<"a">>>>],
     [k \in {<<"source", "service_name">>, <<"summary">>} |->
         IF k = <<"summary">> THEN <<<<"b">>>> ELSE <<<<"s">>>>],
     [k \in {<<"timestamp">>} |-> <<<<"0">>>>],
     [k \in {<<"_id">>} |-> <<ObjectIDHex(1)>>],
     [k \in {<<"_id">>} |-> <<<<"s">>>>],
     [k \in {<<"_id">>} |-> <<SubSeq(ObjectIDHex(1), 1, ObjectIDHexLen - 1) \o <<"g">>>>],
     [k \in {<<"_id">>} |-> <<<<"s">>, ObjectIDHex(1)>>]}

Init ==
    /\ Token \in ServiceTokens
    /\ routes = MainRoutes
    /\ handleCalls = <<[method |-> "POST", handler |-> "add"],
                       [method |-> "GET", handler |-> "query"]>>
    /\ store = <<>>
    /\ req = [r \in Reqs |-> IdleRequest]
    /\ logged = 0
    /\ acked = {}

\* the requests that have arrived and have not been logged yet
NotLoggedYet == {r \in Reqs : req[r].pc \in {"auth", "log"}}

Receive(r) ==
    /\ req[r].pc = "idle"
    /\ logged + Cardinality(NotLoggedYet) < MaxRequests
    /\ \E method \in ServiceMethods, path \in ServicePaths, present \in BOOLEAN :
       \E value \in IF present THEN ServiceAuthorizations ELSE {<<>>} :
           req' = [req EXCEPT ![r].pc = ServeHandlerChain[1],
                              ![r].Method = method,
                              ![r].Path = path,
                              ![r].hasAuthorization = present,
                              ![r].Authorization = value,
                              ![r].ackedBefore = acked]
    /\ UNCHANGED <<Token, routes, handleCalls, store, logged, acked>>

\* the bodies and the queries of the requests served concurrently
ConcurrentBodies ==
    {JsonBody(BaseEvent),
     JsonBody(EventLit(NumberLit(1, 1), StringValue(<<"a">>), EmptyObject, EmptyObject)),
     JsonBody(Without(BaseEvent, "timestamp"))}

ConcurrentQueries ==
    {NoQuery, [k \in {<<"source", "service_name">>} |-> <<<<"s">>>>]}

Next ==
    \E r \in Reqs :
        \/ Receive(r)
        \/ AuthenticationMiddlewareServeHTTP(r, Wrapped("auth"))
        \/ LoggingMiddlewareServeHTTP(r, Wrapped("log"))
        \/ ServeMuxServeHTTP(r)
        \/ MethodRouterServeHTTP(r)
        \/ EventsAddHandlerValidate(r, ConcurrentBodies)
        \/ EventsAddHandlerInsert(r)
        \/ EventsAddHandlerRespond(r)
        \/ EventsQueryHandlerFind(r, ConcurrentQueries)
        \/ EventsQueryHandlerAll(r)
        \/ EventsQueryHandlerAllCanceled(r)
        \/ EventsQueryHandlerRespond(r)
        \/ Finish(r)

Spec == Init /\ [][Next]_vars

(***************************************************************************)
(* The same service serving one request at a time, with every body and     *)
(* every query of the model.                                               *)
(***************************************************************************)
NextSerial ==
    \/ Receive(1)
    \/ AuthenticationMiddlewareServeHTTP(1, Wrapped("auth"))
    \/ LoggingMiddlewareServeHTTP(1, Wrapped("log"))
    \/ ServeMuxServeHTTP(1)
    \/ MethodRouterServeHTTP(1)
    \/ EventsAddHandlerValidate(1, ServiceBodies)
    \/ EventsAddHandlerInsert(1)
    \/ EventsAddHandlerRespond(1)
    \/ EventsQueryHandlerFind(1, ServiceQueries)
    \/ EventsQueryHandlerAll(1)
    \/ EventsQueryHandlerAllCanceled(1)
    \/ EventsQueryHandlerRespond(1)
    \/ Finish(1)

SpecSerial == Init /\ [][NextSerial]_vars

(***************************************************************************)
(* The service serving one request at a time, with the handlers scheduled: *)
(* a handler that can take its next step takes it.  Nothing makes a        *)
(* request arrive, and nothing makes a client close its connection.  The   *)
(* bodies are those that EventsAddHandler accepts and hands to the store.  *)
(***************************************************************************)
AcceptedBodies == {d \in ConcurrentBodies : EventsAddHandlerCheck(d).err = Nil}

HandlerStep ==
    \/ AuthenticationMiddlewareServeHTTP(1, Wrapped("auth"))
    \/ LoggingMiddlewareServeHTTP(1, Wrapped("log"))
    \/ ServeMuxServeHTTP(1)
    \/ MethodRouterServeHTTP(1)
    \/ EventsAddHandlerValidate(1, AcceptedBodies)
    \/ EventsAddHandlerInsert(1)
    \/ EventsAddHandlerRespond(1)
    \/ EventsQueryHandlerFind(1, ConcurrentQueries)
    \/ EventsQueryHandlerAll(1)
    \/ EventsQueryHandlerRespond(1)

NextFair ==
    \/ Receive(1)
    \/ HandlerStep
    \/ EventsQueryHandlerAllCanceled(1)
    \/ Finish(1)

SpecFair == Init /\ [][NextFair]_vars /\ WF_vars(HandlerStep)

PresentsBearer(q) == Presents(q, <<"B", "e", "a", "r", "e", "r">>) \/ Presents(q, <<"b", "e", "a", "r", "e", "r">>)

\* C4 as stated: a request to /events whose method is neither GET nor POST is
\* answered 405, whatever its authentication state.
C4_UnsupportedMethodAlways405 ==
    \A r \in Reqs :
        (req[r].pc = "done" /\ req[r].Path = <<"/", "e", "v", "e", "n", "t", "s">> /\ req[r].Method \notin {"GET", "POST"})
            => req[r].writer.responseCode = StatusMethodNotAllowed

\* C4 as amended: a request to /events whose method is neither GET nor POST
\* never reaches the ingest or the query handler; it is answered with the 405
\* envelope once the authentication gate has let it through (always when the
\* secret is presented, or no secret is configured and no Authorization header
\* is sent) and with 401 when the gate rejects it (always when a secret is
\* configured and the request does not present it).
C4_UnsupportedMethodBehindGate ==
    \A r \in Reqs :
        (req[r].pc = "done" /\ req[r].Path = <<"/", "e", "v", "e", "n", "t", "s">> /\ req[r].Method \notin {"GET", "POST"})
            => /\ ~Invoked(r, "add") /\ ~Invoked(r, "query")
               /\ IF Invoked(r, "router")
                  THEN /\ req[r].writer.responseCode = StatusMethodNotAllowed
                       /\ req[r].writer.responseText = <<"{", "\"", "d", "e", "s", "c", "r", "i", "p", "t", "i", "o", "n", "\"", ":", "\"", "M", "e", "t", "h", "o", "d", " ", "N", "o", "t", " ", "A", "l", "l", "o", "w", "e", "d", "\"", "}">>
                  ELSE /\ req[r].writer.responseCode = StatusUnauthorized
                       /\ req[r].trace = <<"auth">>
               /\ (Token # <<>> /\ ~PresentsBearer(req[r]))
                      => req[r].writer.responseCode = StatusUnauthorized
               /\ (Token # <<>> /\ PresentsBearer(req[r]))
                      => req[r].writer.responseCode = StatusMethodNotAllowed
               /\ (Token = <<>> /\ ~req[r].hasAuthorization)
                      => req[r].writer.responseCode = StatusMethodNotAllowed

C4_Witness ==
    \E r \in Reqs :
        /\ req[r].pc = "done"
        /\ req[r].Path = <<"/", "e", "v", "e", "n", "t", "s">>
        /\ req[r].Method = "PUT"
        /\ Token # <<>>
        /\ PresentsBearer(req[r])
        /\ req[r].writer.responseCode = StatusMethodNotAllowed

(***************************************************************************)
(* The event schema as the data model states it: an object with a number   *)
(* timestamp >= 0, a string summary of length >= 1, an object source and   *)
(* an object attributes.                                                   *)
(***************************************************************************)
SatisfiesEventSchema(d) ==
    /\ d.t = "json"
    /\ d.lit.t = "object"
    /\ {"timestamp", "summary", "source", "attributes"} \subseteq DOMAIN d.lit.m
    /\ d.lit.m["timestamp"].t = "number"
    /\ (d.lit.m["timestamp"].hi > 0 \/ d.lit.m["timestamp"].lo >= 0)
    /\ d.lit.m["summary"].t = "string"
    /\ Len(d.lit.m["summary"].s) >= 1
    /\ d.lit.m["source"].t = "object"
    /\ d.lit.m["attributes"].t = "object"

\* the body is no JSON text, or a JSON text that violates the schema
ViolatesEventSchema(d) == d.t \in {"garbage", "json"} /\ ~SatisfiesEventSchema(d)

\* C6: a POST whose body is not parseable JSON or violates the event schema is
\* answered 400 and InsertOne is never called for it; the step that reads such
\* a body ends the request and leaves the store as it was.
C6_InvalidBodyRejected ==
    /\ [](\A r \in Reqs :
              (req[r].pc = "done" /\ Invoked(r, "add") /\ ViolatesEventSchema(req[r].Body))
                  => /\ req[r].writer.responseCode = StatusBadRequest
                     /\ ~Invoked(r, "InsertOne"))
    /\ [][\A r \in Reqs :
              (req[r].pc = "add" /\ req'[r].pc # "add" /\ ViolatesEventSchema(req'[r].Body))
                  => (store' = store /\ req'[r].pc = "done")]_vars

C6_Witness ==
    \E r \in Reqs :
        /\ req[r].pc = "done"
        /\ Invoked(r, "add")
        /\ req[r].Body = JsonBody(With(BaseEvent, "timestamp", NumberLit(0, -1)))
        /\ req[r].writer.responseCode = StatusBadRequest
        /\ Len(store) > 0

\* C7: a POST whose body satisfies the event schema and whose InsertOne succeeds
\* adds exactly one document to the store, with the fields of the parsed body
\* (and an _id), and is answered 204 with the body {} and nothing else.
C7_ValidBodyInserted ==
    /\ [](\A r \in Reqs :
              (req[r].pc = "done" /\ Invoked(r, "InsertOne") /\ req[r].err = Nil)
                  => /\ req[r].writer.responseCode = StatusNoContent
                     /\ req[r].writer.responseText = <<"{", "}">>)
    /\ [](\A r \in Reqs :
              (req[r].pc \in {"insert", "addRespond"} \/ (req[r].pc = "done" /\ Invoked(r, "add")))
                  => (SatisfiesEventSchema(req[r].Body) <=> (req[r].pc # "done" \/ Invoked(r, "InsertOne"))))
    /\ [][\A r \in Reqs :
              (req[r].pc = "insert" /\ req'[r].pc = "addRespond" /\ req'[r].err = Nil)
                  => /\ Len(store') = Len(store) + 1
                     /\ SubSeq(store', 1, Len(store)) = store
                     /\ LET document == store'[Len(store')]
                        IN  /\ DOMAIN document.m = DOMAIN req[r].Body.lit.m \cup {"_id"}
                            /\ \A k \in DOMAIN req[r].event.m : document.m[k] = req[r].event.m[k]
                            /\ DOMAIN req[r].event.m = DOMAIN req[r].Body.lit.m]_vars

C7_Witness ==
    \E r \in Reqs :
        /\ req[r].pc = "done"
        /\ req[r].Body = JsonBody(EventLit(NumberLit(0, 1), StringValue(<<"b">>), ServiceNameS, CustomerNameT))
        /\ req[r].writer.responseCode = StatusNoContent
        /\ Len(store) = 1
        /\ store[1].m["attributes"] = MapValue([k \in {"customer_name"} |-> StringValue(<<"t">>)])

\* the Go value carries the JSON literal: the same number, the same string, or
\* an object with the same keys carrying the same literals
RECURSIVE CarriesLiteral(_, _)
CarriesLiteral(value, lit) ==
    CASE lit.t = "number" -> value.t = "float64" /\ value.hi = lit.hi /\ value.lo = lit.lo
      [] lit.t = "string" -> value = lit
      [] lit.t = "object" ->
            /\ value.t = "map"
            /\ DOMAIN value.m = DOMAIN lit.m
            /\ \A k \in DOMAIN lit.m : CarriesLiteral(value.m[k], lit.m[k])

\* the document has every field of the event e, with e's value
IncludesEvent(document, e) ==
    \A k \in DOMAIN e.m :
        k \in DOMAIN document.m /\ CarriesLiteral(document.m[k], e.m[k])

\* C8 as stated: a GET without query parameters that the store serves, and that
\* arrives after a POST of the event e was answered 204, returns e among its
\* results.
C8_AckedEventReturned ==
    \A r \in Reqs :
        (req[r].pc = "done" /\ Invoked(r, "All") /\ req[r].err = Nil /\ req[r].Query = NoQuery)
            => \A e \in req[r].ackedBefore :
                   \E i \in 1..Len(req[r].results.items) :
                       IncludesEvent(req[r].results.items[i], e)

(***************************************************************************)
(* The condition a query parameter stands for: the field at the dotted     *)
(* path equals the first value given for the key, as a string, or, for     *)
(* "_id", as the identifier that the value spells in 24 hex digits (the    *)
(* zero identifier when it spells none).                                   *)
(***************************************************************************)
SpelledIdentifier(text) ==
    IF \E n \in 0..15 : ObjectIDHex(n) = text
    THEN ObjectID(CHOOSE n \in 0..15 : ObjectIDHex(n) = text)
    ELSE ObjectID(0)

SatisfiesParameter(document, k, values) ==
    /\ Len(k) >= 1
    /\ k[1] \in DOMAIN document.m
    /\ IF Len(k) = 1
       THEN document.m[k[1]] = IF k = <<"_id">> THEN SpelledIdentifier(values[1])
                               ELSE StringValue(values[1])
       ELSE /\ Len(k) = 2
            /\ document.m[k[1]].t = "map"
            /\ k[2] \in DOMAIN document.m[k[1]].m
            /\ document.m[k[1]].m[k[2]] = StringValue(values[1])

SatisfyingEvents(queryParams) ==
    SelectSeq(store, LAMBDA document :
        \A k \in DOMAIN queryParams : SatisfiesParameter(document, k, queryParams[k]))

\* C9: a GET that the store serves is answered 200 with the JSON array of
\* exactly the stored events that satisfy every query parameter: every stored
\* event when there is no parameter, and [] when no event satisfies them.
C9_QueryReturnsMatchingEvents ==
    \A r \in Reqs :
        (req[r].pc = "done" /\ Invoked(r, "All") /\ req[r].err = Nil)
            => /\ req[r].writer.responseCode = StatusOK
               /\ req[r].results.items = SatisfyingEvents(req[r].Query)
               /\ req[r].writer.responseText =
                      <<"[">> \o MarshalItems(SatisfyingEvents(req[r].Query)) \o <<"]">>
               /\ (req[r].Query = NoQuery => req[r].results.items = store)
               /\ (SatisfyingEvents(req[r].Query) = <<>>
                      => req[r].writer.responseText = <<"[", "]">>)

C9_Witness ==
    \E r \in Reqs :
        /\ req[r].pc = "done"
        /\ req[r].err = Nil
        /\ DOMAIN req[r].Query = {<<"source", "service_name">>, <<"summary">>}
        /\ Len(store) = 2
        /\ Len(req[r].results.items) = 1
        /\ req[r].writer.responseCode = StatusOK

\* the body is the JSON string literal of the text d, and nothing else
IsJsonString(text, d) ==
    /\ Len(text) >= 2
    /\ text[1] = "\""
    /\ LET p == ParseJsonString(Tail(text), <<>>) IN p.ok /\ p.s = d /\ p.tail = <<>>

\* C11: for a value that is neither nil nor an error WriteJsonResponse writes
\* status 200 and the JSON text of the value; when json.Marshal fails it writes
\* status 500 and the envelope {"description":"Internal Server Error"}, which
\* is the same whatever the text of the Marshal error is.
C11_ValueOrGenericFailure ==
    \A r \in Reqs :
        (req[r].pc = "done" /\ req[r].v # Nil /\ ~IsError(req[r].v))
            => CASE req[r].v.t = "unmarshalable" ->
                        /\ req[r].writer.responseCode = StatusInternalServerError
                        /\ req[r].writer.responseText = <<"{", "\"", "d", "e", "s", "c", "r", "i", "p", "t", "i", "o", "n", "\"", ":", "\"", "I", "n", "t", "e", "r", "n", "a", "l", " ", "S", "e", "r", "v", "e", "r", " ", "E", "r", "r", "o", "r", "\"", "}">>
                        /\ IsDescriptionObject(req[r].writer.responseText,
                                               StatusText(StatusInternalServerError))
                 [] req[r].v.t = "string" ->
                        /\ req[r].writer.responseCode = StatusOK
                        /\ IsJsonString(req[r].writer.responseText, req[r].v.s)
                 [] req[r].v.t = "slice" ->
                        /\ req[r].writer.responseCode = StatusOK
                        /\ req[r].writer.responseText =
                               IF req[r].v.isNil THEN <<"n", "u", "l", "l">>
                               ELSE <<"[">> \o MarshalItems(req[r].v.items) \o <<"]">>
                 [] OTHER -> req[r].writer.responseCode = StatusOK

C11_Witness ==
    \E r \in Reqs :
        /\ req[r].pc = "done"
        /\ req[r].v = Unmarshalable(<<"a", "a">>)
        /\ req[r].writer.responseCode = StatusInternalServerError

\* C13: for every error handed to WriteJsonResponse (an HttpError of any code
\* and description, any other error) and for a value json.Marshal fails on,
\* the body reads back as a JSON object whose only field is description, a
\* string; the status code is no part of the body.
C13_EnvelopeHasOnlyDescription ==
    \A r \in Reqs :
        (req[r].pc = "done" /\ (IsError(req[r].v) \/ req[r].v.t = "unmarshalable"))
            => /\ ParseDescriptionObject(req[r].writer.responseText).ok
               /\ IsError(req[r].v)
                      => IsDescriptionObject(req[r].writer.responseText, ErrorText(req[r].v))

C13_Witness ==
    \E r \in Reqs :
        /\ req[r].pc = "done"
        /\ req[r].v = HttpError(StatusTeapot, <<"\"", "<">>)
        /\ Len(req[r].writer.responseText) > 0

\* the request failed in the store: InsertOne, Find or cursor.All returned an error
StoreFailed(r) ==
    /\ req[r].pc = "done"
    /\ (Invoked(r, "InsertOne") \/ Invoked(r, "Find"))
    /\ req[r].err # Nil

\* C12 as stated: a request that fails in the store is answered 500 with the
\* standard message "Internal Server Error", and any two such requests are
\* answered with the same body, whatever the errors of the store were.
C12_StoreFailureOpaque ==
    /\ \A r \in Reqs :
           StoreFailed(r)
               => /\ req[r].writer.responseCode = StatusInternalServerError
                  /\ IsDescriptionObject(req[r].writer.responseText,
                                         StatusText(StatusInternalServerError))
    /\ \A r1, r2 \in Reqs :
           (StoreFailed(r1) /\ StoreFailed(r2))
               => req[r1].writer.responseText = req[r2].writer.responseText

EnvelopeCalls == <<"Header.Set", "Header.Set", "WriteHeader", "Write">>

\* the request went down one of the paths that end in WriteJsonResponse: the
\* 401 of the authentication, the 405 of the router, the ingest, the query
EndsInEnvelope(r) ==
    /\ req[r].pc = "done"
    /\ ~Invoked(r, "mux") \/ req[r].Path = <<"/", "e", "v", "e", "n", "t", "s">>

\* C14: while a request is in the handler chain nothing has been written to
\* its response; when a request that ends in the 401, the 405, the ingest or
\* the query has been served, WriteJsonResponse was called exactly once: one
\* status and one body were written, those of the outcome of the request.
C14_EnvelopeWrittenOnce ==
    \A r \in Reqs :
        /\ req[r].pc # "done" => req[r].writer = NewResponseWriter
        /\ EndsInEnvelope(r)
               => /\ req[r].writer.calls = EnvelopeCalls
                  /\ req[r].writer.header.ContentType = <<"a", "p", "p", "l", "i", "c", "a", "t", "i", "o", "n", "/", "j", "s", "o", "n">>
                  /\ req[r].writer.responseCode \in
                         {StatusOK, StatusNoContent, StatusBadRequest, StatusUnauthorized,
                          StatusMethodNotAllowed, StatusInternalServerError}
                  /\ \/ req[r].writer.responseText = <<"{", "}">>
                     \/ ParseDescriptionObject(req[r].writer.responseText).ok
                     \/ /\ req[r].writer.responseCode = StatusOK
                        /\ req[r].writer.responseText =
                               <<"[">> \o MarshalItems(req[r].results.items) \o <<"]">>

C14_Witness ==
    \E r \in Reqs :
        /\ req[r].pc = "done"
        /\ Invoked(r, "All")
        /\ req[r].err = ConnectionRefused
        /\ req[r].writer.calls = EnvelopeCalls

\* C15: a step changes the store only when it is the InsertOne of a POST, and
\* then it appends one document and leaves the documents stored before as
\* they were; a GET, a request answered 401 or 405 and a POST answered 400
\* have not called InsertOne.
C15_StoreAppendOnly ==
    /\ [][\/ store' = store
          \/ \E r \in Reqs :
                 /\ req[r].pc = "insert"
                 /\ req[r].Method = "POST"
                 /\ req'[r].pc = "addRespond"
                 /\ Len(store') = Len(store) + 1
                 /\ SubSeq(store', 1, Len(store)) = store]_vars
    /\ [](\A r \in Reqs :
              Invoked(r, "InsertOne")
                  => /\ req[r].Method = "POST"
                     /\ req[r].pc = "done"
                            => req[r].writer.responseCode \notin
                                   {StatusBadRequest, StatusUnauthorized, StatusMethodNotAllowed})

C15_Witness ==
    \E r \in Reqs :
        /\ req[r].pc = "done"
        /\ req[r].Method = "GET"
        /\ Invoked(r, "All")
        /\ Len(store) = 2
        /\ store[1].m["_id"] = ObjectID(1)

\* C16: when a secret is configured and a request does not present it, the
\* request ends in the authentication middleware, whatever its method and
\* path: it is answered with the 401 envelope, and neither the logger nor the
\* multiplexer, the router, a handler or the store is invoked for it.
C16_RejectedBeforeLogging ==
    \A r \in Reqs :
        (req[r].pc # "idle" /\ Token # <<>> /\ ~PresentsBearer(req[r]))
            => /\ req[r].pc \in {"auth", "done"}
               /\ req[r].ops = <<>>
               /\ req[r].pc = "auth" => req[r].trace = <<>>
               /\ req[r].pc = "done"
                      => /\ req[r].trace = <<"auth">>
                         /\ req[r].writer.responseCode = StatusUnauthorized
                         /\ IsDescriptionObject(req[r].writer.responseText,
                                                StatusText(StatusUnauthorized))

C16_Witness ==
    \E r \in Reqs :
        /\ req[r].pc = "done"
        /\ Token # <<>>
        /\ req[r].Method = "POST"
        /\ req[r].Path = <<"/", "o", "t", "h", "e", "r">>
        /\ req[r].Authorization = <<"B", "e", "a", "r", "e", "r", " ", "t">>
        /\ req[r].writer.responseCode = StatusUnauthorized
        /\ logged > 0

\* C17 as stated: every store operation of a request runs under the deadline
\* of 10 seconds: it never runs longer, and when the store needs longer the
\* operation is aborted and the request is answered with a failure.
C17_EveryOperationUnderDeadline ==
    \A r \in Reqs : \A i \in 1..Len(req[r].ops) :
        /\ req[r].ops[i].ctx.deadline = TimeoutSeconds
        /\ req[r].ops[i].took > TimeoutSeconds
               => /\ req[r].ops[i].aborted # Nil
                  /\ req[r].pc = "done"
                         => req[r].writer.responseCode = StatusInternalServerError

\* C18 as stated: a store operation is aborted by its deadline only: the
\* client closing the connection while the operation runs does not abort it.
C18_OnlyDeadlineAborts ==
    \A r \in Reqs : \A i \in 1..Len(req[r].ops) :
        req[r].ops[i].aborted \in {Nil, DeadlineExceeded}

\* C18 as amended: every store operation of a request runs under a context
\* made from the request's, so the client closing the connection aborts the
\* insert, the find and the streaming of the results, and the request is
\* answered 500; with the client connected, the insert and the find are
\* aborted exactly when the store needs more than 10 seconds, and the
\* streaming of the results is not aborted at all.
C18_AbortedByDisconnectOrDeadline ==
    \A r \in Reqs : \A i \in 1..Len(req[r].ops) :
        LET o == req[r].ops[i]
        IN  /\ o.clientGone => o.aborted = Canceled
            /\ (~o.clientGone /\ o.op \in {"InsertOne", "Find"})
                   => (o.aborted = IF o.took > TimeoutSeconds THEN DeadlineExceeded ELSE Nil)
            /\ (~o.clientGone /\ o.op = "All") => o.aborted = Nil
            /\ o.aborted # Nil
                   => /\ i = Len(req[r].ops)
                      /\ req[r].err = o.aborted
                      /\ req[r].pc = "done"
                             => req[r].writer.responseCode = StatusInternalServerError

C18_Witness ==
    \E r \in Reqs :
        /\ req[r].pc = "done"
        /\ Len(req[r].ops) = 1
        /\ req[r].ops[1].op = "InsertOne"
        /\ req[r].ops[1].clientGone
        /\ req[r].ops[1].took = 1
        /\ req[r].err = Canceled
        /\ req[r].writer.responseCode = StatusInternalServerError

\* C19 as stated: the identifier of every stored event is one the store
\* assigned: the ObjectID of its position, whatever the body of the POST was.
C19_IdentifierAssignedByStore ==
    \A i \in 1..Len(store) : store[i].m["_id"].t = "ObjectID"

\* C20 as stated: the description of the 400 answer made of a list of
\* violations contains no double quote, whatever the messages and the
\* property paths of the violations are.
C20_DescriptionWithoutQuote ==
    \A r \in Reqs :
        (req[r].pc = "done" /\ req[r].validationError # <<>>)
            => /\ req[r].writer.responseCode = StatusBadRequest
               /\ req[r].v.t = "HttpError"
               /\ \A i \in 1..Len(req[r].v.Description) : req[r].v.Description[i] # "\""

(***************************************************************************)
(* Queries: what CreateFilterFromQuery makes of the parameters, and what   *)
(* the store answers to the filter.                                        *)
(***************************************************************************)
\* a text that is not 24 hexadecimal digits
MalformedIdentifier(text) ==
    \/ Len(text) # 24
    \/ \E i \in 1..Len(text) : text[i] \notin HexDigits

AsksMalformedIdentifier(r) ==
    /\ req[r].pc = "done"
    /\ Invoked(r, "Find")
    /\ <<"_id">> \in DOMAIN req[r].Query
    /\ MalformedIdentifier(req[r].Query[<<"_id">>][1])

\* C21: a GET /events whose "_id" parameter is not 24 hexadecimal digits is
\* not rejected with 400: its "_id" condition is the zero identifier, and,
\* when the store answers, the response is 200 with the body [] whatever
\* events are stored.
C21_MalformedIdMatchesNothing ==
    \A r \in Reqs :
        AsksMalformedIdentifier(r)
            => /\ req[r].filter[<<"_id">>] = ObjectID(0)
               /\ req[r].writer.responseCode # StatusBadRequest
               /\ req[r].err = Nil
                      => /\ req[r].writer.responseCode = StatusOK
                         /\ req[r].writer.responseText = <<"[", "]">>

C21_Witness ==
    \E r \in Reqs :
        /\ AsksMalformedIdentifier(r)
        /\ Len(req[r].Query[<<"_id">>][1]) = 24
        /\ Len(store) >= 2
        /\ req[r].err = Nil
        /\ req[r].writer.responseCode = StatusOK
        /\ req[r].writer.responseText = <<"[", "]">>

\* the entry a query parameter stands for: the first value of the key as a
\* string, or for "_id" the identifier its 24 hexadecimal digits spell
FirstValueEntry(queryParams, k) ==
    IF k = <<"_id">>
    THEN SpelledIdentifier(queryParams[k][1])
    ELSE StringValue(queryParams[k][1])

\* C22: CreateFilterFromQuery returns a non-nil filter with exactly one entry
\* per distinct key of the query, whose value is the first value given for
\* the key as a string (decoded as an identifier for "_id"), later values
\* being ignored, in whatever order the keys are visited; no entry is ever
\* made for anything else, and no parameters give the empty filter.
C22_FilterOfFirstValues ==
    \A r \in Reqs :
        Invoked(r, "CreateFilterFromQuery")
            => /\ req[r].filter.t = "map"
               /\ DOMAIN req[r].filter.m \subseteq DOMAIN req[r].Query
               /\ \A k \in DOMAIN req[r].filter.m :
                      req[r].filter.m[k] = FirstValueEntry(req[r].Query, k)
               /\ req[r].pc = "done"
                      => /\ DOMAIN req[r].filter.m = DOMAIN req[r].Query
                         /\ req[r].filter.m = CreateFilterFromQuery(req[r].Query)
                         /\ req[r].Query = NoQuery => req[r].filter = MapValue(NoQuery)

C22_Witness ==
    \E r \in Reqs :
        /\ Invoked(r, "CreateFilterFromQuery")
        /\ req[r].pc = "done"
        /\ DOMAIN req[r].Query = FilterKeys
        /\ req[r].Query[<<"_id">>] = <<ObjectIDHex(1), <<"s">>>>
        /\ req[r].Query[<<"summary">>] = <<<<"s">>, <<>>>>
        /\ req[r].filter.m[<<"_id">>] = ObjectID(1)
        /\ req[r].filter.m[<<"summary">>] = StringValue(<<"s">>)

\* C23: a query parameter never matches a field stored as a number: no event
\* returned by GET has a number at the path of a parameter of the query, so
\* a stored event with timestamp = n is not returned for any text given for
\* timestamp, the decimal text of n included.
C23_NumberNeverMatched ==
    \A r \in Reqs :
        (req[r].pc = "done" /\ Invoked(r, "All") /\ req[r].err = Nil)
            => \A k \in DOMAIN req[r].Query :
                   /\ \A i \in 1..Len(req[r].results.items) :
                          FieldAt(req[r].results.items[i], k).t # "float64"
                   /\ \A i \in 1..Len(req[r].cursor.batch) :
                          FieldAt(req[r].cursor.batch[i], k).t # "float64"

C23_Witness ==
    \E r \in Reqs :
        /\ req[r].pc = "done"
        /\ Invoked(r, "All")
        /\ req[r].err = Nil
        /\ DOMAIN req[r].Query = {<<"timestamp">>}
        /\ \E i \in 1..Len(store) :
               /\ store[i].m["timestamp"].t = "float64"
               /\ MarshalFloat64(store[i].m["timestamp"]) = req[r].Query[<<"timestamp">>][1]
        /\ req[r].results.items = <<>>
        /\ req[r].writer.responseCode = StatusOK

(***************************************************************************)
(* Requests served concurrently.                                           *)
(***************************************************************************)
\* the places of the store that hold the document the POST of slot r inserted
StoredBy(r) == {i \in 1..Len(store) : store[i].m["_id"] = req[r].insertedID}

Answered204(r) ==
    /\ req[r].pc = "done"
    /\ Invoked(r, "InsertOne")
    /\ req[r].writer.responseCode = StatusNoContent

\* C24: requests served concurrently do not interfere: in every interleaving
\* of POST and GET requests a POST answered 204 has its document in the store
\* exactly once, two such POSTs have two documents, and no step of a request
\* changes the authentication secret or the route table.
C24_ConcurrentRequestsDoNotInterfere ==
    /\ [][Token' = Token /\ routes' = routes /\ handleCalls' = handleCalls]_vars
    /\ [](\A r \in Reqs :
             Answered204(r)
                 => /\ Cardinality(StoredBy(r)) = 1
                    /\ \A i \in StoredBy(r) :
                           \A k \in DOMAIN req[r].event.m : store[i].m[k] = req[r].event.m[k]
                    /\ \A q \in Reqs \ {r} : Answered204(q) => StoredBy(q) # StoredBy(r))

C24_Witness ==
    /\ Answered204(1)
    /\ Answered204(2)
    /\ req[1].Body = req[2].Body
    /\ Len(store) = 2
    /\ StoredBy(1) # StoredBy(2)

(***************************************************************************)
(* Store calls of one request.                                             *)
(***************************************************************************)
\* how many times the request of slot r has made the call
CallCount(r, call) == Cardinality({i \in 1..Len(req[r].trace) : req[r].trace[i] = call})

StoreCalls == {"InsertOne", "Find", "All"}

\* C25: nothing is retried: a request makes each store call at most once, a
\* POST one insert and no find, a GET one find (whose results are streamed
\* once) and no insert; as soon as a step has failed the request is at its
\* response, never at a further store call, and the response is that of the
\* failure; a failure of the body makes no store call at all.
C25_NothingRetried ==
    \A r \in Reqs :
        /\ \A call \in StoreCalls : CallCount(r, call) <= 1
        /\ Len(req[r].ops) = CallCount(r, "InsertOne") + CallCount(r, "Find") + CallCount(r, "All")
        /\ Invoked(r, "InsertOne") => (req[r].Method = "POST" /\ ~Invoked(r, "Find"))
        /\ Invoked(r, "Find") => (req[r].Method = "GET" /\ ~Invoked(r, "InsertOne"))
        /\ Invoked(r, "All") => Invoked(r, "Find")
        /\ req[r].err # Nil => req[r].pc \in {"addRespond", "queryRespond", "done"}
        /\ (req[r].pc = "done" /\ req[r].err # Nil)
               => /\ req[r].v = req[r].err
                  /\ req[r].writer.responseCode >= StatusBadRequest
                  /\ (Invoked(r, "add") /\ ~Invoked(r, "InsertOne")) => req[r].ops = <<>>
                  /\ (Invoked(r, "Find") /\ Len(req[r].ops) = 2) => req[r].ops[1].aborted = Nil

C25_Witness ==
    \E r \in Reqs :
        /\ req[r].pc = "done"
        /\ Invoked(r, "Find")
        /\ ~Invoked(r, "All")
        /\ req[r].err = DeadlineExceeded
        /\ Len(req[r].ops) = 1
        /\ req[r].writer.responseCode = StatusInternalServerError

(***************************************************************************)
(* The rendering of a list of violations, stated from the right: the items *)
(* of the list but the last, then "; ", then the last item.                *)
(***************************************************************************)
SingleQuoted(message) ==
    [i \in 1..Len(message) |-> IF message[i] = "\"" THEN "'" ELSE message[i]]

RenderedItem(ve) ==
    IF ve.PropertyPath \in {<<>>, <<"/">>}
    THEN SingleQuoted(ve.Message)
    ELSE ve.PropertyPath \o <<" ">> \o SingleQuoted(ve.Message)

RECURSIVE RenderedItems(_)
RenderedItems(list) ==
    IF Len(list) = 1 THEN RenderedItem(list[1])
    ELSE RenderedItems(SubSeq(list, 1, Len(list) - 1)) \o <<";", " ">> \o RenderedItem(list[Len(list)])

Rendered(list) ==
    IF list = <<>> THEN <<>>
    ELSE <<"T", "h", "e", " ", "j", "s", "o", "n", " ", "d", "i", "d", " ", "n", "o", "t", " ", "m", "a", "t", "c", "h", " ", "t", "h", "e", " ", "e", "x", "p", "e", "c", "t", "e", "d", " ", "f", "o", "r", "m", "a", "t", ":", " ">> \o RenderedItems(list)

\* C26: ValidationError.Error renders a non-empty list of (path, message)
\* pairs as "The json did not match the expected format: " followed by one
\* item per pair in the order of the list, separated by "; ", an item being
\* "<path> <message>" when the path is neither empty nor "/" and "<message>"
\* otherwise, with every double quote of the message replaced by a single
\* quote; the empty list renders as the empty text.
C26_RenderedList ==
    \A r \in Reqs :
        Invoked(r, "ValidationError.Error")
            => req[r].v.Description = Rendered(req[r].validationError)

C26_Witness ==
    \E r \in Reqs :
        /\ Invoked(r, "ValidationError.Error")
        /\ req[r].validationError = <<KeyError(<<"/", "a">>, <<"\"">>), KeyError(<<"/">>, <<"a">>)>>
        /\ req[r].v.Description =
               <<"T", "h", "e", " ", "j", "s", "o", "n", " ", "d", "i", "d", " ", "n", "o", "t", " ", "m", "a", "t", "c", "h", " ", "t", "h", "e", " ", "e", "x", "p", "e", "c", "t", "e", "d", " ", "f", "o", "r", "m", "a", "t", ":", " ", "/", "a", " ", "'", ";", " ", "a">>

C26_WitnessEmpty ==
    \E r \in Reqs :
        /\ Invoked(r, "ValidationError.Error")
        /\ req[r].validationError = <<>>
        /\ req[r].v.Description = <<>>

(***************************************************************************)
(* The calls WriteJsonResponse makes on the response writer.               *)
(***************************************************************************)
WroteJson(r) ==
    /\ req[r].pc = "done"
    /\ \E i \in 1..Len(req[r].writer.calls) : req[r].writer.calls[i] = "Header.Set"

\* C27: for every value handed to it (nil, a value, an error, a value that
\* does not serialize) WriteJsonResponse sets Content-Type to application/json
\* and Content-Length to the decimal number of bytes of the body it writes,
\* then writes the status, then the body.
C27_HeadersThenStatusThenBody ==
    \A r \in Reqs :
        WroteJson(r)
            => /\ req[r].writer.header.ContentType = <<"a", "p", "p", "l", "i", "c", "a", "t", "i", "o", "n", "/", "j", "s", "o", "n">>
               /\ req[r].writer.header.ContentLength = Decimal(Len(req[r].writer.responseText))
               /\ req[r].writer.calls = <<"Header.Set", "Header.Set", "WriteHeader", "Write">>
               /\ req[r].writer.responseCode # 0

C27_Witness ==
    \E r \in Reqs :
        /\ WroteJson(r)
        /\ req[r].v.t = "unmarshalable"
        /\ req[r].writer.responseCode = StatusInternalServerError
        /\ Len(req[r].writer.responseText) > 9
        /\ req[r].writer.header.ContentLength = Decimal(Len(req[r].writer.responseText))

(***************************************************************************)
(* LoggingMiddleware in the chain of main, where it wraps the ServeMux.    *)
(***************************************************************************)
\* C28: LoggingMiddleware emits exactly one log entry for every request it
\* receives, before the handler it wraps runs, and then hands the request to
\* that handler: its step adds one entry, leaves the response writer as it
\* is and moves the request to the wrapped handler; nothing else adds an
\* entry; the step can always be taken for a request that is at the
\* middleware; and the wrapped handler only runs right after it.
C28_OneEntryThenDelegate ==
    /\ [][/\ \A r \in Reqs :
                (req[r].pc = "log" /\ req'[r] # req[r])
                    => /\ logged' = logged + 1
                       /\ req'[r].pc = "mux"
                       /\ req'[r].trace = req[r].trace \o <<"log">>
                       /\ req'[r].writer = req[r].writer
          /\ logged' # logged
                => /\ logged' = logged + 1
                   /\ \E r \in Reqs : req[r].pc = "log" /\ req'[r].pc = "mux"]_vars
    /\ [](\A r \in Reqs :
             /\ CallCount(r, "log") <= 1
             /\ \A i \in 1..Len(req[r].trace) :
                    req[r].trace[i] = "mux" => (i > 1 /\ req[r].trace[i - 1] = "log")
             /\ req[r].pc = "log" => ENABLED LoggingMiddlewareServeHTTP(r, "mux"))

C28_Witness ==
    \E r \in Reqs :
        /\ req[r].pc = "done"
        /\ Invoked(r, "log")
        /\ Invoked(r, "mux")
        /\ logged = 2
        /\ req[r].writer.responseCode = StatusNotFound

\* C29 as stated: WriteJsonResponse never answers an error with a success
\* status: for every HttpError, whatever its Code and also without one, and
\* for every other error, the status written is 400 or above.
C29_ErrorNeverAnsweredWithSuccess ==
    \A r \in Reqs :
        (WroteJson(r) /\ IsError(req[r].v))
            => req[r].writer.responseCode >= StatusBadRequest

(***************************************************************************)
(* Termination of a request when the store does not answer.                *)
(***************************************************************************)
\* C30 as stated: every request eventually receives its response, even when
\* the store never answers: a request that has arrived is eventually done.
C30_EveryRequestAnswered ==
    \A r \in Reqs : (req[r].pc \notin {"idle", "done"}) ~> (req[r].pc = "done")

\* the part of C30 that holds: a request that is not streaming results, or
\* whose client closes the connection, is eventually done
AnsweredUnlessStreaming ==
    \A r \in Reqs :
        (req[r].pc \notin {"idle", "done"}) ~> (req[r].pc \in {"done", "allWaiting"})
====
